---- MODULE Spec2Model ----
(***************************************************************************)
(* A state-machine model of comlin (src/src/comlin.c): the line buffer,    *)
(* the history store, the edit session (start / feed / stop), the blocking *)
(* comlin_read_line loop and the raw-mode handling of the terminal.        *)
(*                                                                         *)
(* Conventions.                                                            *)
(*  - A C string or byte array is a sequence of byte values 0..255; the C  *)
(*    index i is the TLA+ index i + 1.                                     *)
(*  - The session object (struct ComlinStateImpl) is the record l, with    *)
(*    the field names of the struct.  history_len is Len(l.history).       *)
(*  - Every C function is an operator from the session record (and the     *)
(*    outcomes of the system calls it makes) to the new session record.    *)
(*  - Undefined behaviour (an out-of-bounds history slot, a memmove of a   *)
(*    negative size, a string without terminator) ends the modelled run:   *)
(*    the record is marked ub and nothing is assumed of what follows.      *)
(*  - The field out of the session record is not a field of the struct: it *)
(*    collects the bytes the current call of the edit API passes to        *)
(*    write(2) on the output descriptor, in order.                         *)
(***************************************************************************)
EXTENDS Integers, Sequences, FiniteSets, TLC

(***************************************************************************)
(* Bounds of the model.                                                    *)
(***************************************************************************)
\* Longest line the user types in the specifications of the line buffer.
MaxLine == 3
\* Largest history_max_len the caller configures.
MaxHistory == 3

(***************************************************************************)
(* Program constants: enum KEY_ACTION and the character literals of        *)
(* comlin_edit_feed.                                                       *)
(***************************************************************************)
KEY_NULL == 0
CTRL_A == 1
CTRL_B == 2
CTRL_C == 3
CTRL_D == 4
CTRL_E == 5
CTRL_F == 6
CTRL_H == 8
TAB == 9
CTRL_K == 11
CTRL_L == 12
ENTER == 13
CTRL_N == 14
CTRL_P == 16
CTRL_T == 20
CTRL_U == 21
CTRL_W == 23
ESC == 27
BACKSPACE == 127
NEWLINE == 10
SPACE == 32
CH_a == 97
CH_b == 98
CH_LBRACKET == 91
CH_O == 79
CH_0 == 48
CH_9 == 57
CH_3 == 51
CH_TILDE == 126
CH_A == 65
CH_B == 66
CH_C == 67
CH_D == 68
CH_H == 72
CH_F == 70
BEL == 7
CARRIAGE_RETURN == 13
CH_STAR == 42
CH_K == 75
CH_J == 74
CH_1 == 49
CH_2 == 50
CH_GT == 62
CH_Z == 90
CH_5 == 53

\* ComlinStatus values as comlin.c returns them.  COMLIN_READING is the
\* "editing continues" status (COMLIN_EDITING in the public header).
COMLIN_SUCCESS == "SUCCESS"
COMLIN_READING == "READING"
COMLIN_END == "END"
COMLIN_INTERRUPTED == "INTERRUPTED"
COMLIN_BAD_READ == "BAD_READ"
COMLIN_BAD_WRITE == "BAD_WRITE"
COMLIN_BAD_TERMINAL == "BAD_TERMINAL"

\* Results of read(2) that are not a byte.
READ_EOF == 256
READ_ERR == 257

REFRESH_CLEAN == {"clean"}
REFRESH_WRITE == {"write"}
REFRESH_ALL == REFRESH_CLEAN \cup REFRESH_WRITE

(***************************************************************************)
(* C strings.                                                              *)
(***************************************************************************)
Min(a, b) == IF a < b THEN a ELSE b

\* Whether the array holds a terminator at all.
HasNul(data) == \E i \in 1..Len(data) : data[i] = 0

\* strlen(data): the number of bytes before the first NUL.
strlen(data) ==
    IF HasNul(data)
    THEN (CHOOSE i \in 1..Len(data) :
            data[i] = 0 /\ \A j \in 1..(i - 1) : data[j] # 0) - 1
    ELSE Len(data)

\* strdup(data): the bytes before the first NUL.
strdup(data) == SubSeq(data, 1, strlen(data))

\* memmove(data + dst, data + src, n) inside one array.
memmove(data, dst, src, n) ==
    [i \in 1..Len(data) |->
        IF i - 1 >= dst /\ i - 1 < dst + n THEN data[i - dst + src] ELSE data[i]]

\* data[i] = c
Poke(data, i, c) == [data EXCEPT ![i + 1] = c]

(***************************************************************************)
(* struct abuf: the append buffer.  mem is the outcome of realloc.         *)
(***************************************************************************)
ab_append(ab, s, mem) ==
    LET new_length == ab.length + Len(s)
        needed_size == new_length + 1
        grow == needed_size > ab.size
    IN  IF grow /\ ~mem
        THEN ab
        ELSE LET size == IF grow THEN needed_size ELSE ab.size
                 old == IF grow
                        THEN ab.data \o [i \in 1..(needed_size - ab.size) |-> 0]
                        ELSE ab.data
             IN  [data |-> [i \in 1..size |->
                              IF i > ab.length /\ i <= new_length
                              THEN s[i - ab.length]
                              ELSE IF i = new_length + 1 THEN 0 ELSE old[i]],
                  length |-> new_length,
                  size |-> size]

(***************************************************************************)
(* History store.  Each operator returns the new session record in l and   *)
(* the C return value in ret.  The history array always has room for       *)
(* history_max_len pointers, so it is the sequence of its history_len      *)
(* entries.                                                                *)
(***************************************************************************)
\* Faulty variant of comlin_history_add: the comparison with the newest
\* entry is left out.
comlin_history_add_always(state, line) ==
    IF state.history_max_len = 0
    THEN [l |-> state, ret |-> 0]
    ELSE LET linecopy == strdup(line \o <<0>>)
             kept == IF Len(state.history) = state.history_max_len
                     THEN Tail(state.history)
                     ELSE state.history
         IN  [l |-> [state EXCEPT !.history = Append(kept, linecopy)], ret |-> 1]

\* Faulty variant of comlin_history_add: at capacity the newest entry is
\* dropped instead of the oldest.
comlin_history_add_drop_newest(state, line) ==
    IF state.history_max_len = 0
    THEN [l |-> state, ret |-> 0]
    ELSE IF Len(state.history) # 0 /\ state.history[Len(state.history)] = line
    THEN [l |-> state, ret |-> 0]
    ELSE LET linecopy == strdup(line \o <<0>>)
             kept == IF Len(state.history) = state.history_max_len
                     THEN SubSeq(state.history, 1, Len(state.history) - 1)
                     ELSE state.history
         IN  [l |-> [state EXCEPT !.history = Append(kept, linecopy)], ret |-> 1]

comlin_history_add(state, line) ==
    IF state.history_max_len = 0
    THEN [l |-> state, ret |-> 0]
    ELSE IF Len(state.history) # 0 /\ state.history[Len(state.history)] = line
    THEN [l |-> state, ret |-> 0]
    ELSE LET linecopy == strdup(line \o <<0>>)
             kept == IF Len(state.history) = state.history_max_len
                     THEN Tail(state.history)
                     ELSE state.history
         IN  [l |-> [state EXCEPT !.history = Append(kept, linecopy)], ret |-> 1]

\* Faulty variant of comlin_history_set_max_len: the oldest entries are the
\* ones kept.
comlin_history_set_max_len_keep_oldest(state, len) ==
    IF len < 1
    THEN [l |-> state, ret |-> 0]
    ELSE LET history_len == Len(state.history)
             tocopy == IF len < history_len THEN len ELSE history_len
             new_history == SubSeq(state.history, 1, tocopy)
         IN  [l |-> [state EXCEPT !.history = new_history,
                                  !.history_max_len = len],
              ret |-> 1]

comlin_history_set_max_len(state, len) ==
    IF len < 1
    THEN [l |-> state, ret |-> 0]
    ELSE LET history_len == Len(state.history)
             tocopy == IF len < history_len THEN len ELSE history_len
             new_history == SubSeq(state.history,
                                   history_len - tocopy + 1, history_len)
         IN  [l |-> [state EXCEPT !.history = new_history,
                                  !.history_max_len = len],
              ret |-> 1]

\* The bytes fprintf(fp, "%s\n", history[j]) writes for j = 0 .. history_len-1.
RECURSIVE SaveBytes(_)
SaveBytes(history) ==
    IF history = <<>>
    THEN <<>>
    ELSE history[1] \o <<NEWLINE>> \o SaveBytes(Tail(history))

\* comlin_history_save: open is the outcome of fopen, wr the outcome of the
\* writes to the file; when they fail the file holds the first kept bytes.
comlin_history_save(state, open, wr, kept) ==
    IF ~open
    THEN [file |-> <<>>, written |-> FALSE, ret |-> -1]
    ELSE [file |-> IF wr
                   THEN SaveBytes(state.history)
                   ELSE SubSeq(SaveBytes(state.history), 1, kept),
          written |-> TRUE, ret |-> 0]

COMLIN_MAX_LINE == 4096
COMLIN_DEFAULT_HISTORY_MAX_LEN == 100

\* fgets(buf, COMLIN_MAX_LINE, fp): the length of the next chunk of the
\* file: through the first newline, at most COMLIN_MAX_LINE - 1 bytes.
FgetsLen(bytes) ==
    LET limit == Min(Len(bytes), COMLIN_MAX_LINE - 1)
    IN  IF \E i \in 1..limit : bytes[i] = NEWLINE
        THEN CHOOSE i \in 1..limit :
                bytes[i] = NEWLINE /\ \A j \in 1..(i - 1) : bytes[j] # NEWLINE
        ELSE limit

\* The line comlin_history_load passes to comlin_history_add for one chunk:
\* cut at the first '\r', or else at the first '\n'.
LoadedLine(chunk) ==
    IF \E i \in 1..Len(chunk) : chunk[i] = ENTER
    THEN SubSeq(chunk, 1, (CHOOSE i \in 1..Len(chunk) :
                    chunk[i] = ENTER /\ \A j \in 1..(i - 1) : chunk[j] # ENTER) - 1)
    ELSE IF \E i \in 1..Len(chunk) : chunk[i] = NEWLINE
    THEN SubSeq(chunk, 1, (CHOOSE i \in 1..Len(chunk) :
                    chunk[i] = NEWLINE /\ \A j \in 1..(i - 1) : chunk[j] # NEWLINE) - 1)
    ELSE chunk

RECURSIVE LoadLoop(_, _)
LoadLoop(state, bytes) ==
    IF bytes = <<>>
    THEN state
    ELSE LET n == FgetsLen(bytes)
         IN  LoadLoop(comlin_history_add(state, LoadedLine(SubSeq(bytes, 1, n))).l,
                      SubSeq(bytes, n + 1, Len(bytes)))

\* comlin_history_load: open is the outcome of fopen.
comlin_history_load(state, bytes, open) ==
    IF ~open
    THEN [l |-> state, ret |-> -1]
    ELSE [l |-> LoadLoop(state, bytes), ret |-> 0]

(***************************************************************************)
(* Terminal control.  The terminal is the record [tty, attr]: whether the  *)
(* input descriptor is a terminal, and its current attributes ("cooked":   *)
(* the attributes it had before the program touched it, or "raw").         *)
(***************************************************************************)
\* The attributes enable_raw_mode derives from the saved ones.
RawOf(attr) == "raw"

\* tcget / tcset are the outcomes of tcgetattr / tcsetattr.
enable_raw_mode(state, tm, tcget, tcset) ==
    IF ~tm.tty
    THEN [l |-> state, term |-> tm, rc |-> 0]
    ELSE IF ~tcget
    THEN [l |-> state, term |-> tm, rc |-> -1]
    ELSE LET saved == [state EXCEPT !.cooked = tm.attr]
         IN  IF tcset
             THEN [l |-> [saved EXCEPT !.rawmode = TRUE],
                   term |-> [tm EXCEPT !.attr = RawOf(saved.cooked)],
                   rc |-> 0]
             ELSE [l |-> [saved EXCEPT !.rawmode = FALSE], term |-> tm, rc |-> -1]

disableRawMode(state, tm, tcset) ==
    IF state.rawmode
    THEN IF ~tcset
         THEN [l |-> state, term |-> tm, st |-> COMLIN_BAD_TERMINAL]
         ELSE [l |-> [state EXCEPT !.rawmode = FALSE],
               term |-> [tm EXCEPT !.attr = state.cooked],
               st |-> COMLIN_SUCCESS]
    ELSE [l |-> state, term |-> tm, st |-> COMLIN_SUCCESS]

(***************************************************************************)
(* Terminal output.                                                        *)
(***************************************************************************)
\* write(ofd, bytes, n): the bytes are added to what the call has written.
Write(l, bytes) == [l EXCEPT !.out = l.out \o bytes]

\* The session at the entry of a call of the edit API.
Entered(l) == [l EXCEPT !.out = <<>>]

\* The prompt of the model: plen bytes '>'.
Prompt(l) == [i \in 1..l.plen |-> CH_GT]

\* n asterisks, written one ab_append at a time.
Stars(n) == [i \in 1..n |-> CH_STAR]

\* snprintf of "%d" or "%zu" for a number that is not negative.
RECURSIVE Decimal(_)
Decimal(n) ==
    IF n < 10
    THEN <<CH_0 + n>>
    ELSE Decimal(n \div 10) \o <<CH_0 + (n % 10)>>

\* "\x1B[<n><letter>"
Csi(n, letter) == <<ESC, CH_LBRACKET>> \o Decimal(n) \o <<letter>>

\* s written n times
RECURSIVE Repeat(_, _)
Repeat(s, n) == IF n <= 0 THEN <<>> ELSE s \o Repeat(s, n - 1)

\* "\x1B[0K": erase to the right
EraseToRight == <<ESC, CH_LBRACKET, CH_0, CH_K>>

\* comlin_beep
comlin_beep(state) == Write(state, <<BEL>>)

\* comlin_clear_screen: "\x1B[H\x1B[2J"
comlin_clear_screen(state) ==
    Write(state, <<ESC, CH_LBRACKET, CH_H, ESC, CH_LBRACKET, CH_2, CH_J>>)

(***************************************************************************)
(* Refresh.  The single-line refresh works on local copies and leaves the  *)
(* fields of the session as they are; the multi-line refresh records       *)
(* oldrows and oldpos.  Both build their output in a buffer and write it   *)
(* at once.                                                                *)
(***************************************************************************)
\* The first loop of refresh_single_line drops a byte of the line for each
\* column the cursor is beyond the right edge: with more columns to drop
\* than the line has bytes, len wraps around and the write of the line
\* reads far beyond the buffer; so it does when the second loop runs with a
\* prompt wider than the terminal.
refresh_single_line(l, flags) ==
    LET plen == l.plen
        shift == IF plen + l.pos >= l.cols THEN plen + l.pos - l.cols + 1 ELSE 0
        len1 == l.buf.length - shift
        len == IF plen + len1 > l.cols THEN l.cols - plen ELSE len1
        pos == l.pos - shift
        write == flags \cap REFRESH_WRITE # {}
    IN  IF write /\ (shift > l.buf.length \/ len < 0 \/ shift + len > l.buf.size)
        THEN [l EXCEPT !.ub = TRUE]
        ELSE Write(l,
                   <<CARRIAGE_RETURN>>
                   \o (IF write
                       THEN Prompt(l)
                            \o (IF l.maskmode
                                THEN Stars(len)
                                ELSE SubSeq(l.buf.data, shift + 1, shift + len))
                       ELSE <<>>)
                   \o EraseToRight
                   \o (IF write
                       THEN <<CARRIAGE_RETURN>> \o Csi(pos + plen, CH_C)
                       ELSE <<>>))

refresh_multi_line_no_edge_row(l, flags) ==
    LET plen == l.plen
        rows == (plen + l.buf.length + l.cols - 1) \div l.cols
        rpos == (plen + l.oldpos + l.cols) \div l.cols
        old_rows == l.oldrows
        clean == flags \cap REFRESH_CLEAN # {}
        write == flags \cap REFRESH_WRITE # {}
        atEdge == write
                  /\ l.pos # 0 /\ l.pos = l.buf.length
                  /\ (l.pos + plen) % l.cols = 0
        rows2 == rows
        rpos2 == (plen + l.pos + l.cols) \div l.cols
        col == (plen + l.pos) % l.cols
        cleared ==
            IF clean
            THEN (IF old_rows > rpos THEN Csi(old_rows - rpos, CH_B) ELSE <<>>)
                 \o Repeat(<<CARRIAGE_RETURN>> \o EraseToRight \o Csi(1, CH_A),
                           old_rows - 1)
            ELSE <<>>
        top == IF flags # {} THEN <<CARRIAGE_RETURN>> \o EraseToRight ELSE <<>>
        written ==
            IF write
            THEN Prompt(l)
                 \o (IF l.maskmode
                     THEN Stars(l.buf.length)
                     ELSE SubSeq(l.buf.data, 1, l.buf.length))
                 \o (IF atEdge THEN <<NEWLINE, CARRIAGE_RETURN>> ELSE <<>>)
                 \o (IF rows2 > rpos2 THEN Csi(rows2 - rpos2, CH_A) ELSE <<>>)
                 \o (IF col # 0
                     THEN <<CARRIAGE_RETURN>> \o Csi(col, CH_C)
                     ELSE <<CARRIAGE_RETURN>>)
            ELSE <<>>
    IN  IF write /\ (l.buf.length < 0 \/ l.buf.length > l.buf.size)
        THEN [l EXCEPT !.ub = TRUE]
        ELSE Write([l EXCEPT !.oldrows = rows2, !.oldpos = l.pos],
                   cleared \o top \o written)

\* Faulty variant of refresh_multi_line: the row the cursor is on is taken
\* from the present cursor position, not from the recorded one.
refresh_multi_line_from_new_cursor(l, flags) ==
    LET plen == l.plen
        rows == (plen + l.buf.length + l.cols - 1) \div l.cols
        rpos == (plen + l.pos + l.cols) \div l.cols
        old_rows == l.oldrows
        clean == flags \cap REFRESH_CLEAN # {}
        write == flags \cap REFRESH_WRITE # {}
        atEdge == write
                  /\ l.pos # 0 /\ l.pos = l.buf.length
                  /\ (l.pos + plen) % l.cols = 0
        rows2 == IF atEdge THEN rows + 1 ELSE rows
        rpos2 == (plen + l.pos + l.cols) \div l.cols
        col == (plen + l.pos) % l.cols
        cleared ==
            IF clean
            THEN (IF old_rows > rpos THEN Csi(old_rows - rpos, CH_B) ELSE <<>>)
                 \o Repeat(<<CARRIAGE_RETURN>> \o EraseToRight \o Csi(1, CH_A),
                           old_rows - 1)
            ELSE <<>>
        top == IF flags # {} THEN <<CARRIAGE_RETURN>> \o EraseToRight ELSE <<>>
        written ==
            IF write
            THEN Prompt(l)
                 \o (IF l.maskmode
                     THEN Stars(l.buf.length)
                     ELSE SubSeq(l.buf.data, 1, l.buf.length))
                 \o (IF atEdge THEN <<NEWLINE, CARRIAGE_RETURN>> ELSE <<>>)
                 \o (IF rows2 > rpos2 THEN Csi(rows2 - rpos2, CH_A) ELSE <<>>)
                 \o (IF col # 0
                     THEN <<CARRIAGE_RETURN>> \o Csi(col, CH_C)
                     ELSE <<CARRIAGE_RETURN>>)
            ELSE <<>>
    IN  IF write /\ (l.buf.length < 0 \/ l.buf.length > l.buf.size)
        THEN [l EXCEPT !.ub = TRUE]
        ELSE Write([l EXCEPT !.oldrows = rows2, !.oldpos = l.pos],
                   cleared \o top \o written)

refresh_multi_line(l, flags) ==
    LET plen == l.plen
        rows == (plen + l.buf.length + l.cols - 1) \div l.cols
        rpos == (plen + l.oldpos + l.cols) \div l.cols
        old_rows == l.oldrows
        clean == flags \cap REFRESH_CLEAN # {}
        write == flags \cap REFRESH_WRITE # {}
        atEdge == write
                  /\ l.pos # 0 /\ l.pos = l.buf.length
                  /\ (l.pos + plen) % l.cols = 0
        rows2 == IF atEdge THEN rows + 1 ELSE rows
        rpos2 == (plen + l.pos + l.cols) \div l.cols
        col == (plen + l.pos) % l.cols
        cleared ==
            IF clean
            THEN (IF old_rows > rpos THEN Csi(old_rows - rpos, CH_B) ELSE <<>>)
                 \o Repeat(<<CARRIAGE_RETURN>> \o EraseToRight \o Csi(1, CH_A),
                           old_rows - 1)
            ELSE <<>>
        top == IF flags # {} THEN <<CARRIAGE_RETURN>> \o EraseToRight ELSE <<>>
        written ==
            IF write
            THEN Prompt(l)
                 \o (IF l.maskmode
                     THEN Stars(l.buf.length)
                     ELSE SubSeq(l.buf.data, 1, l.buf.length))
                 \o (IF atEdge THEN <<NEWLINE, CARRIAGE_RETURN>> ELSE <<>>)
                 \o (IF rows2 > rpos2 THEN Csi(rows2 - rpos2, CH_A) ELSE <<>>)
                 \o (IF col # 0
                     THEN <<CARRIAGE_RETURN>> \o Csi(col, CH_C)
                     ELSE <<CARRIAGE_RETURN>>)
            ELSE <<>>
    IN  IF write /\ (l.buf.length < 0 \/ l.buf.length > l.buf.size)
        THEN [l EXCEPT !.ub = TRUE]
        ELSE Write([l EXCEPT !.oldrows = rows2, !.oldpos = l.pos],
                   cleared \o top \o written)

refresh_line_with_flags(l, flags) ==
    IF l.mlmode THEN refresh_multi_line(l, flags) ELSE refresh_single_line(l, flags)

refresh_line(l) == refresh_line_with_flags(l, REFRESH_ALL)

(***************************************************************************)
(* Completion.  The callback is the caller's; the model uses the one of    *)
(* the example program, with "ab" and "abb" offered for a line that starts *)
(* with 'a'.                                                               *)
(***************************************************************************)
completion(text) ==
    IF Len(text) > 0 /\ text[1] = CH_a
    THEN << <<CH_a, CH_b>>, <<CH_a, CH_b, CH_b>> >>
    ELSE <<>>

\* A char is signed: the value the C code compares.
AsChar(c) == IF c >= 128 THEN c - 256 ELSE c

\* Faulty variant of refresh_line_with_completion: the line is put back
\* after the refresh, the cursor is not.
refresh_line_with_completion_moves_cursor(ls, lc, flags) ==
    IF ls.completion_idx < Len(lc)
    THEN LET cand == lc[ls.completion_idx + 1]
             shown == [ls EXCEPT !.buf = [data |-> cand \o <<0>>,
                                          length |-> Len(cand),
                                          size |-> ls.buf.size],
                                 !.pos = Len(cand)]
             restored(r) == [r EXCEPT !.buf = ls.buf]
         IN  restored(refresh_line_with_flags(shown, flags))
    ELSE refresh_line_with_flags(ls, flags)

\* lc is the table of candidates the caller passes, or the one the callback
\* returns for the current line when the caller passes NULL.
refresh_line_with_completion(ls, lc, flags) ==
    IF ls.completion_idx < Len(lc)
    THEN LET cand == lc[ls.completion_idx + 1]
             shown == [ls EXCEPT !.buf = [data |-> cand \o <<0>>,
                                          length |-> Len(cand),
                                          size |-> ls.buf.size],
                                 !.pos = Len(cand)]
             restored(r) == [r EXCEPT !.buf = ls.buf, !.pos = ls.pos]
         IN  restored(refresh_line_with_flags(shown, flags))
    ELSE refresh_line_with_flags(ls, flags)

\* Faulty variant of complete_line: Tab after the last candidate goes to
\* the first candidate again, never to the original line.
complete_line_no_wrap(ls, keypressed, mem) ==
    IF ls.buf.length # 0 /\ ~HasNul(ls.buf.data)
    THEN [l |-> [ls EXCEPT !.ub = TRUE], c |-> 0]
    ELSE
    LET lc == IF ls.buf.length # 0 THEN completion(strdup(ls.buf.data)) ELSE <<>>
        c == AsChar(keypressed)
    IN  IF Len(lc) = 0
        THEN [l |-> [comlin_beep(ls) EXCEPT !.in_completion = FALSE], c |-> c]
        ELSE LET s1 ==
                   IF c = TAB
                   THEN IF ~ls.in_completion
                        THEN [ls EXCEPT !.in_completion = TRUE,
                                        !.completion_idx = 0]
                        ELSE LET idx == (ls.completion_idx + 1) % Len(lc)
                                 next == [ls EXCEPT !.completion_idx = idx]
                             IN  IF idx = Len(lc) THEN comlin_beep(next) ELSE next
                   ELSE IF c = ESC
                   THEN [(IF ls.completion_idx < Len(lc)
                          THEN refresh_line(ls) ELSE ls)
                            EXCEPT !.in_completion = FALSE]
                   ELSE IF ls.completion_idx < Len(lc)
                   THEN LET cand == lc[ls.completion_idx + 1]
                        IN  [ls EXCEPT
                               !.pos = Len(cand),
                               !.buf = ab_append([ls.buf EXCEPT !.length = 0],
                                                 cand, mem),
                               !.in_completion = FALSE]
                   ELSE [ls EXCEPT !.in_completion = FALSE]
                 s2 == IF s1.in_completion /\ s1.completion_idx < Len(lc)
                       THEN refresh_line_with_completion(s1, lc, REFRESH_ALL)
                       ELSE refresh_line(s1)
             IN  [l |-> s2, c |-> IF c = TAB \/ c = ESC THEN 0 ELSE c]

\* Faulty variant of complete_line: a candidate is committed without
\* moving the cursor to its end.
complete_line_keeps_cursor(ls, keypressed, mem) ==
    IF ls.buf.length # 0 /\ ~HasNul(ls.buf.data)
    THEN [l |-> [ls EXCEPT !.ub = TRUE], c |-> 0]
    ELSE
    LET lc == IF ls.buf.length # 0 THEN completion(strdup(ls.buf.data)) ELSE <<>>
        c == AsChar(keypressed)
    IN  IF Len(lc) = 0
        THEN [l |-> [comlin_beep(ls) EXCEPT !.in_completion = FALSE], c |-> c]
        ELSE LET s1 ==
                   IF c = TAB
                   THEN IF ~ls.in_completion
                        THEN [ls EXCEPT !.in_completion = TRUE,
                                        !.completion_idx = 0]
                        ELSE LET idx == (ls.completion_idx + 1) % (Len(lc) + 1)
                                 next == [ls EXCEPT !.completion_idx = idx]
                             IN  IF idx = Len(lc) THEN comlin_beep(next) ELSE next
                   ELSE IF c = ESC
                   THEN [(IF ls.completion_idx < Len(lc)
                          THEN refresh_line(ls) ELSE ls)
                            EXCEPT !.in_completion = FALSE]
                   ELSE IF ls.completion_idx < Len(lc)
                   THEN LET cand == lc[ls.completion_idx + 1]
                        IN  [ls EXCEPT
                               !.buf = ab_append([ls.buf EXCEPT !.length = 0],
                                                 cand, mem),
                               !.in_completion = FALSE]
                   ELSE [ls EXCEPT !.in_completion = FALSE]
                 s2 == IF s1.in_completion /\ s1.completion_idx < Len(lc)
                       THEN refresh_line_with_completion(s1, lc, REFRESH_ALL)
                       ELSE refresh_line(s1)
             IN  [l |-> s2, c |-> IF c = TAB \/ c = ESC THEN 0 ELSE c]

\* Returns the session in l and the byte the caller is to process in c
\* (0: the keystroke was consumed).
complete_line(ls, keypressed, mem) ==
    IF ls.buf.length # 0 /\ ~HasNul(ls.buf.data)
    THEN [l |-> [ls EXCEPT !.ub = TRUE], c |-> 0]
    ELSE
    LET lc == IF ls.buf.length # 0 THEN completion(strdup(ls.buf.data)) ELSE <<>>
        c == AsChar(keypressed)
    IN  IF Len(lc) = 0
        THEN [l |-> [comlin_beep(ls) EXCEPT !.in_completion = FALSE], c |-> c]
        ELSE LET s1 ==
                   IF c = TAB
                   THEN IF ~ls.in_completion
                        THEN [ls EXCEPT !.in_completion = TRUE,
                                        !.completion_idx = 0]
                        ELSE LET idx == (ls.completion_idx + 1) % (Len(lc) + 1)
                                 next == [ls EXCEPT !.completion_idx = idx]
                             IN  IF idx = Len(lc) THEN comlin_beep(next) ELSE next
                   ELSE IF c = ESC
                   THEN [(IF ls.completion_idx < Len(lc)
                          THEN refresh_line(ls) ELSE ls)
                            EXCEPT !.in_completion = FALSE]
                   ELSE IF ls.completion_idx < Len(lc)
                   THEN LET cand == lc[ls.completion_idx + 1]
                        IN  [ls EXCEPT
                               !.pos = Len(cand),
                               !.buf = ab_append([ls.buf EXCEPT !.length = 0],
                                                 cand, mem),
                               !.in_completion = FALSE]
                   ELSE [ls EXCEPT !.in_completion = FALSE]
                 s2 == IF s1.in_completion /\ s1.completion_idx < Len(lc)
                       THEN refresh_line_with_completion(s1, lc, REFRESH_ALL)
                       ELSE refresh_line(s1)
             IN  [l |-> s2, c |-> IF c = TAB \/ c = ESC THEN 0 ELSE c]

(***************************************************************************)
(* Line editing.                                                           *)
(***************************************************************************)
\* Undefined behaviour was executed: the run ends here.
Undefined(l) == [l EXCEPT !.ub = TRUE]

\* The byte a char holds.
AsByte(c) == c % 256

\* wr is the outcome of write(2), mem the outcome of realloc.
comlin_edit_insert(l, c, wr, mem) ==
    IF l.buf.length = l.pos
    THEN LET s1 == [l EXCEPT !.buf = ab_append(l.buf, <<AsByte(c)>>, mem),
                             !.pos = l.pos + 1]
         IN  IF ~s1.mlmode /\ s1.plen + s1.buf.length < s1.cols
             THEN LET d == IF s1.maskmode THEN CH_STAR ELSE AsByte(c)
                  IN  [l |-> Write(s1, <<d>>),
                       st |-> IF wr THEN COMLIN_READING ELSE COMLIN_BAD_WRITE]
             ELSE [l |-> refresh_line(s1), st |-> COMLIN_READING]
    ELSE LET b1 == ab_append(l.buf, <<SPACE>>, mem)
             n == b1.length - l.pos
         IN  IF n < 0
             THEN [l |-> Undefined(l), st |-> COMLIN_READING]
             ELSE LET moved == memmove(b1.data, l.pos + 1, l.pos, n)
                      s1 == [l EXCEPT !.buf = [b1 EXCEPT !.data =
                                                  Poke(moved, l.pos, AsByte(c))],
                                      !.pos = l.pos + 1]
                  IN  [l |-> refresh_line(s1), st |-> COMLIN_READING]

comlin_edit_move_left(l) ==
    IF l.pos > 0 THEN refresh_line([l EXCEPT !.pos = l.pos - 1]) ELSE l

comlin_edit_move_right(l) ==
    IF l.pos # l.buf.length THEN refresh_line([l EXCEPT !.pos = l.pos + 1]) ELSE l

comlin_edit_move_home(l) ==
    IF l.pos # 0 THEN refresh_line([l EXCEPT !.pos = 0]) ELSE l

comlin_edit_move_end(l) ==
    IF l.pos # l.buf.length THEN refresh_line([l EXCEPT !.pos = l.buf.length]) ELSE l

COMLIN_HISTORY_NEXT == 0
COMLIN_HISTORY_PREV == 1

comlin_edit_history_next(l, dir, mem) ==
    IF Len(l.history) > 1
    THEN LET history_len == Len(l.history)
             slot == history_len - 1 - l.history_index
         IN  IF slot < 0 \/ ~HasNul(l.buf.data)
             THEN Undefined(l)
             ELSE LET s1 == [l EXCEPT !.history[slot + 1] = strdup(l.buf.data)]
                  IN  IF dir = COMLIN_HISTORY_NEXT /\ l.history_index = 0
                      THEN s1
                      ELSE LET idx == IF dir = COMLIN_HISTORY_NEXT
                                      THEN l.history_index - 1
                                      ELSE l.history_index + 1
                           IN  IF idx >= history_len
                               THEN [s1 EXCEPT !.history_index = history_len - 1]
                               ELSE LET entry == s1.history[history_len - idx]
                                        pos == Len(entry)
                                        b1 == ab_append([l.buf EXCEPT !.length = 0],
                                                        entry, mem)
                                    IN  IF pos >= b1.size
                                        THEN Undefined([s1 EXCEPT !.history_index = idx])
                                        ELSE refresh_line(
                                               [s1 EXCEPT
                                                  !.history_index = idx,
                                                  !.pos = pos,
                                                  !.buf = [b1 EXCEPT !.data =
                                                            Poke(b1.data, pos, 0)]])
    ELSE l

\* Faulty variant of comlin_edit_delete: with the cursor at the end of the
\* line, the last character is removed.
comlin_edit_delete_at_end(l) ==
    IF l.buf.length # 0
    THEN LET from == IF l.pos < l.buf.length THEN l.pos ELSE l.buf.length - 1
             moved == memmove(l.buf.data, from, from + 1,
                              l.buf.length - from - 1)
             length == l.buf.length - 1
         IN  refresh_line([l EXCEPT !.buf.data = Poke(moved, length, 0),
                                    !.buf.length = length])
    ELSE l

comlin_edit_delete(l) ==
    IF l.buf.length # 0 /\ l.pos < l.buf.length
    THEN LET moved == memmove(l.buf.data, l.pos, l.pos + 1,
                              l.buf.length - l.pos - 1)
             length == l.buf.length - 1
         IN  refresh_line([l EXCEPT !.buf.data = Poke(moved, length, 0),
                                    !.buf.length = length])
    ELSE l

comlin_edit_backspace(l) ==
    IF l.pos # 0 /\ l.buf.length # 0
    THEN IF l.buf.length - l.pos < 0
         THEN Undefined(l)
         ELSE LET moved == memmove(l.buf.data, l.pos - 1, l.pos,
                                   l.buf.length - l.pos)
                  length == l.buf.length - 1
              IN  refresh_line([l EXCEPT !.buf.data = Poke(moved, length, 0),
                                         !.buf.length = length,
                                         !.pos = l.pos - 1])
    ELSE l

\* The position the two backward scans of comlin_edit_delete_prev_word reach.
RECURSIVE SkipBack(_, _, _)
SkipBack(data, pos, spaces) ==
    IF pos > 0 /\ ((data[pos] = SPACE) = spaces)
    THEN SkipBack(data, pos - 1, spaces)
    ELSE pos

\* Faulty variant of comlin_edit_delete_prev_word: the spaces before the
\* cursor are not skipped.
comlin_edit_delete_prev_word_keeps_spaces(l) ==
    LET old_pos == l.pos
        pos == IF old_pos > l.buf.size
               THEN old_pos
               ELSE SkipBack(l.buf.data, old_pos, FALSE)
        diff == old_pos - pos
        n == l.buf.length + 1 - old_pos
    IN  IF n < 0 \/ old_pos > l.buf.size \/ diff > l.buf.length
        THEN Undefined(l)
        ELSE refresh_line([l EXCEPT !.buf.data = memmove(l.buf.data, pos, old_pos, n),
                                    !.buf.length = l.buf.length - diff,
                                    !.pos = pos])

comlin_edit_delete_prev_word(l) ==
    LET old_pos == l.pos
        pos == IF old_pos > l.buf.size
               THEN old_pos
               ELSE SkipBack(l.buf.data, SkipBack(l.buf.data, old_pos, TRUE), FALSE)
        diff == old_pos - pos
        n == l.buf.length + 1 - old_pos
    IN  IF n < 0 \/ old_pos > l.buf.size \/ diff > l.buf.length
        THEN Undefined(l)
        ELSE refresh_line([l EXCEPT !.buf.data = memmove(l.buf.data, pos, old_pos, n),
                                    !.buf.length = l.buf.length - diff,
                                    !.pos = pos])

\* Ctrl-T of comlin_edit_feed.
EditTranspose(l) ==
    IF l.pos > 0 /\ l.pos < l.buf.length
    THEN LET aux == l.buf.data[l.pos]
             d1 == Poke(l.buf.data, l.pos - 1, l.buf.data[l.pos + 1])
             d2 == Poke(d1, l.pos, aux)
         IN  refresh_line([l EXCEPT !.buf.data = d2,
                                    !.pos = IF l.pos # l.buf.length - 1
                                            THEN l.pos + 1 ELSE l.pos])
    ELSE l

\* Ctrl-U of comlin_edit_feed.
EditKillLine(l) ==
    refresh_line([l EXCEPT !.buf.data = Poke(l.buf.data, 0, 0),
                           !.pos = 0, !.buf.length = 0])

\* Ctrl-K of comlin_edit_feed.
EditKillToEnd(l) ==
    IF l.pos >= l.buf.size
    THEN Undefined(l)
    ELSE refresh_line([l EXCEPT !.buf.data = Poke(l.buf.data, l.pos, 0),
                                !.buf.length = l.pos])

\* --l->history_len; free(l->history[l->history_len]);
PopHistory(l) ==
    IF Len(l.history) = 0
    THEN Undefined(l)
    ELSE [l EXCEPT !.history = SubSeq(l.history, 1, Len(l.history) - 1)]

(***************************************************************************)
(* The edit session.  inp is the sequence of the results of the next       *)
(* read(2) calls on the input descriptor: a byte, READ_EOF or READ_ERR.    *)
(* Each operator returns the session in l, the status in st and the number *)
(* of reads it made in n.                                                  *)
(***************************************************************************)
Rd(inp, i) == IF i <= Len(inp) THEN inp[i] ELSE READ_EOF

IsByte(r) == r \in 0..255

\* Faulty variant of the escape decoder: ESC [ 3 deletes even when the read
\* of the byte after it ends or fails.
EscapeSequence_short_read_deletes(l, inp, mem) ==
    LET s0 == Rd(inp, 2)
        s1 == Rd(inp, 3)
        s2 == Rd(inp, 4)
    IN  IF ~IsByte(s0)
        THEN [l |-> l, n |-> 2]
        ELSE IF ~IsByte(s1)
        THEN [l |-> l, n |-> 3]
        ELSE IF s0 = CH_LBRACKET
        THEN IF s1 >= CH_0 /\ s1 <= CH_9
             THEN IF s2 = READ_ERR /\ s1 # CH_3
                  THEN [l |-> l, n |-> 4]
                  ELSE IF (s2 = CH_TILDE \/ ~IsByte(s2)) /\ s1 = CH_3
                  THEN [l |-> comlin_edit_delete(l), n |-> 4]
                  ELSE [l |-> l, n |-> 4]
             ELSE [l |-> CASE s1 = CH_A ->
                                comlin_edit_history_next(l, COMLIN_HISTORY_PREV, mem)
                            [] s1 = CH_B ->
                                comlin_edit_history_next(l, COMLIN_HISTORY_NEXT, mem)
                            [] s1 = CH_C -> comlin_edit_move_right(l)
                            [] s1 = CH_D -> comlin_edit_move_left(l)
                            [] s1 = CH_H -> comlin_edit_move_home(l)
                            [] s1 = CH_F -> comlin_edit_move_end(l)
                            [] OTHER -> l,
                   n |-> 3]
        ELSE IF s0 = CH_O
        THEN [l |-> CASE s1 = CH_H -> comlin_edit_move_home(l)
                      [] s1 = CH_F -> comlin_edit_move_end(l)
                      [] OTHER -> l,
              n |-> 3]
        ELSE [l |-> l, n |-> 3]

\* Faulty variant of case ESC: the sequences of the right and the left key
\* are mixed up.
EscapeSequence_swaps_left_right(l, inp, mem) ==
    LET s0 == Rd(inp, 2)
        s1 == Rd(inp, 3)
        s2 == Rd(inp, 4)
    IN  IF ~IsByte(s0)
        THEN [l |-> l, n |-> 2]
        ELSE IF ~IsByte(s1)
        THEN [l |-> l, n |-> 3]
        ELSE IF s0 = CH_LBRACKET
        THEN IF s1 >= CH_0 /\ s1 <= CH_9
             THEN IF s2 = READ_ERR
                  THEN [l |-> l, n |-> 4]
                  ELSE IF s2 = CH_TILDE /\ s1 = CH_3
                  THEN [l |-> comlin_edit_delete(l), n |-> 4]
                  ELSE [l |-> l, n |-> 4]
             ELSE [l |-> CASE s1 = CH_A ->
                                comlin_edit_history_next(l, COMLIN_HISTORY_PREV, mem)
                            [] s1 = CH_B ->
                                comlin_edit_history_next(l, COMLIN_HISTORY_NEXT, mem)
                            [] s1 = CH_C -> comlin_edit_move_left(l)
                            [] s1 = CH_D -> comlin_edit_move_right(l)
                            [] s1 = CH_H -> comlin_edit_move_home(l)
                            [] s1 = CH_F -> comlin_edit_move_end(l)
                            [] OTHER -> l,
                   n |-> 3]
        ELSE IF s0 = CH_O
        THEN [l |-> CASE s1 = CH_H -> comlin_edit_move_home(l)
                      [] s1 = CH_F -> comlin_edit_move_end(l)
                      [] OTHER -> l,
              n |-> 3]
        ELSE [l |-> l, n |-> 3]

\* case ESC of comlin_edit_feed: the two or three reads after the ESC byte.
EscapeSequence(l, inp, mem) ==
    LET s0 == Rd(inp, 2)
        s1 == Rd(inp, 3)
        s2 == Rd(inp, 4)
    IN  IF ~IsByte(s0)
        THEN [l |-> l, n |-> 2]
        ELSE IF ~IsByte(s1)
        THEN [l |-> l, n |-> 3]
        ELSE IF s0 = CH_LBRACKET
        THEN IF s1 >= CH_0 /\ s1 <= CH_9
             THEN IF s2 = READ_ERR
                  THEN [l |-> l, n |-> 4]
                  ELSE IF s2 = CH_TILDE /\ s1 = CH_3
                  THEN [l |-> comlin_edit_delete(l), n |-> 4]
                  ELSE [l |-> l, n |-> 4]
             ELSE [l |-> CASE s1 = CH_A ->
                                comlin_edit_history_next(l, COMLIN_HISTORY_PREV, mem)
                            [] s1 = CH_B ->
                                comlin_edit_history_next(l, COMLIN_HISTORY_NEXT, mem)
                            [] s1 = CH_C -> comlin_edit_move_right(l)
                            [] s1 = CH_D -> comlin_edit_move_left(l)
                            [] s1 = CH_H -> comlin_edit_move_home(l)
                            [] s1 = CH_F -> comlin_edit_move_end(l)
                            [] OTHER -> l,
                   n |-> 3]
        ELSE IF s0 = CH_O
        THEN [l |-> CASE s1 = CH_H -> comlin_edit_move_home(l)
                      [] s1 = CH_F -> comlin_edit_move_end(l)
                      [] OTHER -> l,
              n |-> 3]
        ELSE [l |-> l, n |-> 3]

\* Faulty variant of the dumb-terminal branch: Backspace removes the last
\* byte of the line.
DumbFeed_backspace_deletes(l, c, mem) ==
    IF c = NEWLINE \/ c = ENTER
    THEN [l |-> l, st |-> COMLIN_SUCCESS, n |-> 1]
    ELSE IF c = CTRL_C
    THEN [l |-> l, st |-> COMLIN_INTERRUPTED, n |-> 1]
    ELSE IF c = CTRL_D
    THEN [l |-> l, st |-> COMLIN_END, n |-> 1]
    ELSE IF c = BACKSPACE /\ l.buf.length > 0
    THEN [l |-> [l EXCEPT !.buf.data = Poke(l.buf.data, l.buf.length - 1, 0),
                          !.buf.length = l.buf.length - 1],
          st |-> COMLIN_READING, n |-> 1]
    ELSE [l |-> [Write(l, <<AsByte(c)>>)
                   EXCEPT !.buf = ab_append(l.buf, <<AsByte(c)>>, mem)],
          st |-> COMLIN_READING, n |-> 1]

\* The dumb-terminal branch of comlin_edit_feed.
DumbFeed(l, c, mem) ==
    IF c = NEWLINE \/ c = ENTER
    THEN [l |-> l, st |-> COMLIN_SUCCESS, n |-> 1]
    ELSE IF c = CTRL_C
    THEN [l |-> l, st |-> COMLIN_INTERRUPTED, n |-> 1]
    ELSE IF c = CTRL_D
    THEN [l |-> l, st |-> COMLIN_END, n |-> 1]
    ELSE [l |-> [Write(l, <<AsByte(c)>>)
                   EXCEPT !.buf = ab_append(l.buf, <<AsByte(c)>>, mem)],
          st |-> COMLIN_READING, n |-> 1]

\* Faulty variant of the Enter case: the byte that ended the line is stored
\* at the end of the line.
EditSubmit_keeps_newline(l) ==
    LET popped == PopHistory(l)
    IN  IF popped.ub
        THEN popped
        ELSE [popped EXCEPT !.buf = ab_append(popped.buf, <<NEWLINE>>, TRUE)]

\* case '\n', case ENTER of comlin_edit_feed.
EditSubmit(l) ==
    LET popped == PopHistory(l)
        terminated(moved) ==
            [moved EXCEPT !.buf.data = Poke(moved.buf.data, moved.buf.length, 0)]
    IN  IF popped.ub
        THEN popped
        ELSE terminated(IF popped.mlmode
                        THEN comlin_edit_move_end(popped)
                        ELSE popped)

\* switch (c) of comlin_edit_feed.
Dispatch(l, c, inp, wr, mem) ==
    LET reading(s) == [l |-> s, st |-> COMLIN_READING, n |-> 1]
    IN  CASE c = NEWLINE \/ c = ENTER ->
               [l |-> EditSubmit(l), st |-> COMLIN_SUCCESS, n |-> 1]
          [] c = CTRL_C -> [l |-> l, st |-> COMLIN_INTERRUPTED, n |-> 1]
          [] c = BACKSPACE \/ c = CTRL_H -> reading(comlin_edit_backspace(l))
          [] c = CTRL_D ->
               IF l.buf.length > 0
               THEN reading(comlin_edit_delete(l))
               ELSE [l |-> PopHistory(l), st |-> COMLIN_END, n |-> 1]
          [] c = CTRL_T -> reading(EditTranspose(l))
          [] c = CTRL_B -> reading(comlin_edit_move_left(l))
          [] c = CTRL_F -> reading(comlin_edit_move_right(l))
          [] c = CTRL_P ->
               reading(comlin_edit_history_next(l, COMLIN_HISTORY_PREV, mem))
          [] c = CTRL_N ->
               reading(comlin_edit_history_next(l, COMLIN_HISTORY_NEXT, mem))
          [] c = ESC ->
               LET escaped(e) == [l |-> e.l, st |-> COMLIN_READING, n |-> e.n]
               IN  escaped(EscapeSequence(l, inp, mem))
          [] c = CTRL_U -> reading(EditKillLine(l))
          [] c = CTRL_K -> reading(EditKillToEnd(l))
          [] c = CTRL_A -> reading(comlin_edit_move_home(l))
          [] c = CTRL_E -> reading(comlin_edit_move_end(l))
          [] c = CTRL_L -> reading(refresh_line(comlin_clear_screen(l)))
          [] c = CTRL_W -> reading(comlin_edit_delete_prev_word(l))
          [] OTHER ->
               LET inserted(r) == [l |-> r.l, st |-> r.st, n |-> 1]
               IN  inserted(comlin_edit_insert(l, c, wr, mem))

comlin_edit_feed(state, inp, wr, mem) ==
    LET l == Entered(state)
        r == Rd(inp, 1)
    IN  IF r = READ_ERR
        THEN [l |-> l, st |-> COMLIN_BAD_READ, n |-> 1]
        ELSE IF r = READ_EOF
        THEN [l |-> l, st |-> COMLIN_END, n |-> 1]
        ELSE IF l.dumb
        THEN DumbFeed(l, r, mem)
        ELSE IF (l.in_completion \/ r = TAB) /\ l.completion_callback
        THEN LET completed(cl) ==
                     IF cl.l.ub
                     THEN [l |-> cl.l, st |-> COMLIN_READING, n |-> 1]
                     ELSE IF cl.c < 0
                     THEN [l |-> cl.l, st |-> COMLIN_BAD_READ, n |-> 1]
                     ELSE IF cl.c = 0
                     THEN [l |-> cl.l, st |-> COMLIN_READING, n |-> 1]
                     ELSE Dispatch(cl.l, cl.c, inp, wr, mem)
             IN  completed(complete_line(l, r, mem))
        ELSE Dispatch(l, AsChar(r), inp, wr, mem)

\* Faulty variant of comlin_edit_start: the row tracking of the multi-line
\* refresh is not reset.
comlin_edit_start_keeps_rows(l, tm, tcget, tcset, wr) ==
    LET raw == enable_raw_mode(Entered(l), tm, tcget, tcset)
    IN  IF raw.rc = -1
        THEN [l |-> raw.l, term |-> raw.term, st |-> COMLIN_BAD_TERMINAL]
        ELSE LET reset == [raw.l EXCEPT !.buf.data = Poke(raw.l.buf.data, 0, 0),
                                        !.pos = 0,
                                        !.buf.length = 0]
                 added == comlin_history_add(reset, <<>>).l
             IN  [l |-> Write(added, Prompt(added)), term |-> raw.term,
                  st |-> IF added.plen = 0 \/ wr
                         THEN COMLIN_SUCCESS ELSE COMLIN_BAD_WRITE]

\* tcget, tcset and wr are the outcomes of tcgetattr, tcsetattr and write.
comlin_edit_start(l, tm, tcget, tcset, wr) ==
    LET raw == enable_raw_mode(Entered(l), tm, tcget, tcset)
    IN  IF raw.rc = -1
        THEN [l |-> raw.l, term |-> raw.term, st |-> COMLIN_BAD_TERMINAL]
        ELSE LET reset == [raw.l EXCEPT !.buf.data = Poke(raw.l.buf.data, 0, 0),
                                        !.pos = 0,
                                        !.oldpos = 0,
                                        !.buf.length = 0,
                                        !.oldrows = 0]
                 added == comlin_history_add(reset, <<>>).l
             IN  [l |-> Write(added, Prompt(added)), term |-> raw.term,
                  st |-> IF added.plen = 0 \/ wr
                         THEN COMLIN_SUCCESS ELSE COMLIN_BAD_WRITE]

\* comlin_edit_start when the allocation in its comlin_history_add fails:
\* malloc of the entry array or strdup of the line returns NULL, and
\* comlin_history_add returns 0 with the history as it was; the return
\* value is not looked at.
comlin_edit_start_no_memory(l, tm, tcget, tcset, wr) ==
    LET raw == enable_raw_mode(Entered(l), tm, tcget, tcset)
    IN  IF raw.rc = -1
        THEN [l |-> raw.l, term |-> raw.term, st |-> COMLIN_BAD_TERMINAL]
        ELSE LET reset == [raw.l EXCEPT !.buf.data = Poke(raw.l.buf.data, 0, 0),
                                        !.pos = 0,
                                        !.oldpos = 0,
                                        !.buf.length = 0,
                                        !.oldrows = 0]
             IN  [l |-> Write(reset, Prompt(reset)), term |-> raw.term,
                  st |-> IF reset.plen = 0 \/ wr
                         THEN COMLIN_SUCCESS ELSE COMLIN_BAD_WRITE]

comlin_edit_stop(l, tm, tcset, wr) ==
    LET cooked == disableRawMode(Entered(l), tm, tcset)
    IN  [l |-> IF cooked.st # COMLIN_SUCCESS
               THEN cooked.l
               ELSE Write(cooked.l, <<NEWLINE>>),
         term |-> cooked.term,
         st |-> IF cooked.st # COMLIN_SUCCESS
                THEN cooked.st
                ELSE IF wr THEN COMLIN_SUCCESS ELSE COMLIN_BAD_WRITE]

\* comlin_text: the C string at buf.data.
comlin_text(l) == strdup(l.buf.data)

comlin_hide(l) == refresh_line_with_flags(Entered(l), REFRESH_CLEAN)

\* Faulty variant of comlin_show: the candidate it draws stays in the line
\* buffer.
comlin_show_keeps_candidate(state) ==
    LET l == Entered(state)
        lc == completion(strdup(l.buf.data))
    IN  IF l.in_completion /\ l.buf.length # 0
        THEN IF ~HasNul(l.buf.data)
             THEN Undefined(l)
             ELSE IF l.completion_idx < Len(lc)
             THEN refresh_line_with_flags(
                      [l EXCEPT !.buf = [data |-> lc[l.completion_idx + 1] \o <<0>>,
                                         length |-> Len(lc[l.completion_idx + 1]),
                                         size |-> l.buf.size],
                                !.pos = Len(lc[l.completion_idx + 1])],
                      REFRESH_WRITE)
             ELSE refresh_line_with_flags(l, REFRESH_WRITE)
        ELSE refresh_line_with_flags(l, REFRESH_WRITE)

comlin_show(state) ==
    LET l == Entered(state)
    IN  IF l.in_completion /\ l.buf.length # 0
        THEN IF ~HasNul(l.buf.data)
             THEN Undefined(l)
             ELSE refresh_line_with_completion(l, completion(strdup(l.buf.data)),
                                               REFRESH_WRITE)
        ELSE refresh_line_with_flags(l, REFRESH_WRITE)

\* comlin_free_state: releases the history and the buffer, after restoring
\* the terminal if raw mode is still on.
comlin_free_state(state, tm, tcset) ==
    LET cooked == disableRawMode(Entered(state), tm, tcset)
    IN  [l |-> [cooked.l EXCEPT !.history = <<>>], term |-> cooked.term]

\* comlin_read_line up to the return of comlin_edit_start: the prompt is
\* stored in the session first.
ReadLineEnter(state, plen, tm, tcget, tcset, wr) ==
    comlin_edit_start([state EXCEPT !.plen = plen], tm, tcget, tcset, wr)

\* Faulty variant of the return of comlin_read_line: an error of
\* comlin_edit_stop comes first.
ReadLineResult_stop_first(s0, s1) == IF s1 # COMLIN_SUCCESS THEN s1 ELSE s0

\* return st0 ? st0 : st1
ReadLineResult(s0, s1) == IF s0 # COMLIN_SUCCESS THEN s0 ELSE s1

(***************************************************************************)
(* The state machine.                                                      *)
(*   l        the session object                                           *)
(*   term     the terminal behind the input descriptor                     *)
(*   pc       where the caller is: "idle" (no edit), "editing" (start      *)
(*            succeeded, feed returns READING), "ended" (feed returned a   *)
(*            final status), "failed" (start returned an error), "rl_feed" *)
(*            and "rl_stop" (inside comlin_read_line), "crashed"           *)
(*            (undefined behaviour was executed), "freed"                  *)
(*   last     the last call that returned: its name, what it returned and  *)
(*            what it was given (a line, a length, the bytes read) or, for *)
(*            a load into a fresh session, the history that was loaded     *)
(*   st0, st1 the locals of comlin_read_line                               *)
(*   nb       a second session object, driven through the non-blocking     *)
(*            calls with the input and the system-call outcomes that the   *)
(*            running comlin_read_line gets                                *)
(*   sessions the number of edits started so far                           *)
(*   file     the bytes of the history file                                *)
(***************************************************************************)
VARIABLES l, term, pc, last, st0, st1, nb, sessions, file

vars == <<l, term, pc, last, st0, st1, nb, sessions, file>>

\* The attributes of the terminal before the program touches it.
OrigAttr == "cooked"

\* comlin_new_state on a terminal of cols columns with a prompt of plen
\* bytes: calloc zeroes every field.
comlin_new_state(cols, plen, dumb) ==
    [buf |-> [data |-> [i \in 1..cols |-> 0], length |-> 0, size |-> cols],
     pos |-> 0,
     oldpos |-> 0,
     oldrows |-> 0,
     cols |-> cols,
     plen |-> plen,
     mlmode |-> FALSE,
     dumb |-> dumb,
     history |-> <<>>,
     history_max_len |-> COMLIN_DEFAULT_HISTORY_MAX_LEN,
     history_index |-> 0,
     in_completion |-> FALSE,
     completion_idx |-> 0,
     completion_callback |-> FALSE,
     cooked |-> "zero",
     rawmode |-> FALSE,
     maskmode |-> FALSE,
     out |-> <<>>,
     ub |-> FALSE]

\* The session a program sets up: comlin_new_state, then
\* comlin_history_set_max_len(max_len).
NewSession(cols, plen, dumb, max_len) ==
    comlin_history_set_max_len(comlin_new_state(cols, plen, dumb), max_len).l

NoCall == [op |-> "new", st |-> COMLIN_SUCCESS, arg |-> <<>>]
NoTwin == [on |-> FALSE]
NoFile == <<-1>>

\* The lines the caller adds to the history.
Lines == {<<>>, <<CH_a>>, <<CH_b>>}

Returned(op, st, arg) == [op |-> op, st |-> st, arg |-> arg]

\* The caller's position after a call on the session s returned.
After(s, next) == IF s.ub THEN "crashed" ELSE next

(***************************************************************************)
(* The calls of the caller.  The sets an action takes are the inputs and   *)
(* the system-call outcomes a specification lets the environment choose.   *)
(***************************************************************************)
\* comlin_edit_start, called when no edit is in progress.
Start(wrs, tcgets, tcsets, maxSessions) ==
    /\ pc \in {"idle", "failed"}
    /\ sessions < maxSessions
    /\ \E wr \in wrs, tcget \in tcgets, tcset \in tcsets :
         \E r \in {comlin_edit_start(l, term, tcget, tcset, wr)} :
             /\ l' = r.l
             /\ term' = r.term
             /\ pc' = After(r.l, IF r.st = COMLIN_SUCCESS THEN "editing" ELSE "failed")
             /\ last' = Returned("start", r.st, <<>>)
    /\ sessions' = sessions + 1
    /\ nb' = NoTwin
    /\ UNCHANGED <<st0, st1, file>>

\* comlin_edit_start in a process that is out of memory.
StartNoMemory(wrs, tcgets, tcsets, maxSessions) ==
    /\ pc \in {"idle", "failed"}
    /\ sessions < maxSessions
    /\ \E wr \in wrs, tcget \in tcgets, tcset \in tcsets :
         \E r \in {comlin_edit_start_no_memory(l, term, tcget, tcset, wr)} :
             /\ l' = r.l
             /\ term' = r.term
             /\ pc' = After(r.l, IF r.st = COMLIN_SUCCESS THEN "editing" ELSE "failed")
             /\ last' = Returned("start", r.st, <<>>)
    /\ sessions' = sessions + 1
    /\ nb' = NoTwin
    /\ UNCHANGED <<st0, st1, file>>

\* The session as the caller keeps it in view: the output of a call is
\* kept for a caller that looks at it (keyed).
Seen(s, keyed) == IF keyed THEN s ELSE Entered(s)

\* The second session object makes the same comlin_edit_feed call.
TwinFeed(inp, wr, mem) ==
    IF nb.on
    THEN LET fed(t) == [nb EXCEPT !.l = Entered(t.l), !.st = t.st]
         IN  fed(comlin_edit_feed(nb.l, inp, wr, mem))
    ELSE nb

\* comlin_edit_feed, called by the program or by the loop of
\* comlin_read_line.  inp is what the reads of this call return; keyed says
\* whether last records it and l.out keeps what the call wrote; the user
\* types no line longer than maxLine.
Feed(inputs, wrs, mems, keyed, maxLine) ==
    /\ pc \in {"editing", "rl_feed"}
    /\ \E inp \in inputs, wr \in wrs, mem \in mems :
         \E r \in {comlin_edit_feed(l, inp, wr, mem)} :
             /\ r.n = Len(inp)
             /\ r.l.buf.length <= maxLine
             /\ r.l.pos <= maxLine + 1
             /\ l' = Seen(r.l, keyed)
             /\ last' = Returned("feed", r.st, IF keyed THEN inp ELSE <<>>)
             /\ IF pc = "editing"
                THEN /\ pc' = After(r.l, IF r.st = COMLIN_READING
                                         THEN "editing" ELSE "ended")
                     /\ st0' = st0
                     /\ nb' = NoTwin
                ELSE /\ pc' = After(r.l, IF r.st = COMLIN_READING
                                         THEN "rl_feed" ELSE "rl_stop")
                     /\ st0' = r.st
                     /\ nb' = TwinFeed(inp, wr, mem)
    /\ UNCHANGED <<term, st1, sessions, file>>

\* comlin_edit_stop, called during an edit ("editing") or after feed ended
\* it ("ended").
Stop(tcsets, wrs, pcs) ==
    /\ pc \in pcs
    /\ \E tcset \in tcsets, wr \in wrs :
         \E r \in {comlin_edit_stop(l, term, tcset, wr)} :
             /\ l' = r.l
             /\ term' = r.term
             /\ last' = Returned("stop", r.st, <<>>)
    /\ pc' = "idle"
    /\ nb' = NoTwin
    /\ UNCHANGED <<st0, st1, sessions, file>>

\* The second session object after comlin_edit_start returned r for it: the
\* caller of the non-blocking calls goes on to feed after a successful
\* start, and otherwise finishes with comlin_edit_stop, whose write has the
\* outcome wr of the write of the prompt and whose tcsetattr succeeds.
TwinStart(r, wr) ==
    IF r.st = COMLIN_SUCCESS
    THEN [on |-> TRUE, l |-> r.l, term |-> r.term, st |-> r.st]
    ELSE LET stopped(s) == [on |-> TRUE, l |-> s.l, term |-> s.term,
                             st |-> ReadLineResult(r.st, s.st)]
         IN  stopped(comlin_edit_stop(r.l, r.term, TRUE, wr))

\* comlin_read_line, from the call to the return of comlin_edit_start.
ReadLineStart(wrs, tcgets, tcsets, maxSessions) ==
    /\ pc \in {"idle", "failed"}
    /\ sessions < maxSessions
    /\ \E wr \in wrs, tcget \in tcgets, tcset \in tcsets :
         \E r \in {ReadLineEnter(l, l.plen, term, tcget, tcset, wr)} :
             /\ l' = r.l
             /\ term' = r.term
             /\ st0' = r.st
             /\ nb' = TwinStart(comlin_edit_start(l, term, tcget, tcset, wr), wr)
             /\ IF r.st = COMLIN_SUCCESS
                THEN /\ pc' = After(r.l, "rl_feed")
                     /\ last' = last
                ELSE /\ pc' = After(r.l, "failed")
                     /\ last' = Returned("read_line",
                                         ReadLineResult(r.st, COMLIN_SUCCESS), <<>>)
    /\ st1' = COMLIN_SUCCESS
    /\ sessions' = sessions + 1
    /\ UNCHANGED <<file>>

\* comlin_read_line, from the end of the feed loop to the return.
ReadLineStop(tcsets, wrs) ==
    /\ pc = "rl_stop"
    /\ \E tcset \in tcsets, wr \in wrs :
         \E r \in {comlin_edit_stop(l, term, tcset, wr)},
            t \in {comlin_edit_stop(nb.l, nb.term, tcset, wr)} :
             /\ l' = r.l
             /\ term' = r.term
             /\ st1' = r.st
             /\ last' = Returned("read_line", ReadLineResult(st0, r.st), <<>>)
             /\ nb' = [nb EXCEPT !.l = t.l, !.term = t.term,
                                 !.st = ReadLineResult(nb.st, t.st)]
    /\ pc' = "idle"
    /\ UNCHANGED <<st0, sessions, file>>

\* Where the caller is between two calls, with a session object to use.
Callable == {"idle", "editing", "ended", "failed"}

\* comlin_history_add(l, line)
HistoryAdd(lines, pcs) ==
    /\ pc \in pcs
    /\ \E line \in lines :
         LET r == comlin_history_add(l, line)
         IN  /\ l' = r.l
             /\ last' = Returned("history_add", r.ret, line)
    /\ nb' = NoTwin
    /\ UNCHANGED <<term, pc, st0, st1, sessions, file>>

\* comlin_history_set_max_len(l, len)
HistorySetMaxLen(lens, pcs) ==
    /\ pc \in pcs
    /\ \E len \in lens :
         LET r == comlin_history_set_max_len(l, len)
         IN  /\ l' = r.l
             /\ last' = Returned("history_set_max_len", r.ret, <<len>>)
    /\ nb' = NoTwin
    /\ UNCHANGED <<term, pc, st0, st1, sessions, file>>

\* comlin_history_save(l, filename)
HistorySave(opens, wrs, pcs) ==
    /\ pc \in pcs
    /\ \E open \in opens, wr \in wrs, kept \in 0..Len(SaveBytes(l.history)) :
         LET r == comlin_history_save(l, open, wr, kept)
         IN  /\ IF wr THEN kept = 0 ELSE open /\ kept < Len(SaveBytes(l.history))
             /\ file' = IF r.written THEN r.file ELSE file
             /\ last' = Returned("history_save", r.ret, <<>>)
    /\ nb' = NoTwin
    /\ UNCHANGED <<l, term, pc, st0, st1, sessions>>

\* comlin_history_load(l, filename): the session loads the file on top of
\* the history it has.
HistoryLoad(opens, pcs) ==
    /\ pc \in pcs
    /\ \E open \in opens :
         LET r == comlin_history_load(l, IF file = NoFile THEN <<>> ELSE file,
                                      open /\ file # NoFile)
         IN  /\ l' = r.l
             /\ last' = Returned("history_load", r.ret, <<>>)
    /\ nb' = NoTwin
    /\ UNCHANGED <<term, pc, st0, st1, sessions, file>>

\* comlin_history_load(fresh, filename) on a session object just made with
\* the same history_max_len; last.arg is the history it ends with.
HistoryLoadFresh(pcs) ==
    /\ pc \in pcs
    /\ file # NoFile
    /\ LET fresh == NewSession(l.cols, l.plen, l.dumb, l.history_max_len)
           r == comlin_history_load(fresh, file, TRUE)
       IN  last' = Returned("history_load_fresh", r.ret, r.l.history)
    /\ nb' = NoTwin
    /\ UNCHANGED <<l, term, pc, st0, st1, sessions, file>>

\* comlin_set_multi_line(l, ml)
SetMultiLine(pcs) ==
    /\ pc \in pcs
    /\ \E ml \in BOOLEAN :
         /\ ml # l.mlmode
         /\ l' = [l EXCEPT !.mlmode = ml]
    /\ last' = Returned("set_multi_line", COMLIN_SUCCESS, <<>>)
    /\ nb' = NoTwin
    /\ UNCHANGED <<term, pc, st0, st1, sessions, file>>

\* comlin_mask_mode_enable(l) and comlin_mask_mode_disable(l)
MaskMode(pcs) ==
    /\ pc \in pcs
    /\ \E on \in BOOLEAN :
         /\ on # l.maskmode
         /\ l' = [l EXCEPT !.maskmode = on]
    /\ last' = Returned("mask_mode", COMLIN_SUCCESS, <<>>)
    /\ nb' = NoTwin
    /\ UNCHANGED <<term, pc, st0, st1, sessions, file>>

\* comlin_set_completion_callback(l, fn), fn the callback or NULL
SetCompletionCallback(pcs) ==
    /\ pc \in pcs
    /\ \E fn \in BOOLEAN :
         /\ fn # l.completion_callback
         /\ l' = [l EXCEPT !.completion_callback = fn]
    /\ last' = Returned("set_completion_callback", COMLIN_SUCCESS, <<>>)
    /\ nb' = NoTwin
    /\ UNCHANGED <<term, pc, st0, st1, sessions, file>>

\* comlin_hide(l) during an edit
Hide ==
    /\ pc = "editing"
    /\ l' = comlin_hide(l)
    /\ pc' = After(l', "editing")
    /\ last' = Returned("hide", COMLIN_SUCCESS, <<>>)
    /\ nb' = NoTwin
    /\ UNCHANGED <<term, st0, st1, sessions, file>>

\* comlin_show(l) during an edit
Show ==
    /\ pc = "editing"
    /\ l' = comlin_show(l)
    /\ pc' = After(l', "editing")
    /\ last' = Returned("show", COMLIN_SUCCESS, <<>>)
    /\ nb' = NoTwin
    /\ UNCHANGED <<term, st0, st1, sessions, file>>

\* comlin_free_state(l)
FreeState(tcsets) ==
    /\ pc \in Callable
    /\ \E tcset \in tcsets :
         \E r \in {comlin_free_state(l, term, tcset)} :
             /\ l' = r.l
             /\ term' = r.term
    /\ pc' = "freed"
    /\ last' = Returned("free_state", COMLIN_SUCCESS, <<>>)
    /\ nb' = NoTwin
    /\ UNCHANGED <<st0, st1, sessions, file>>

(***************************************************************************)
(* Specifications.  Each one is the session object under one kind of use.  *)
(***************************************************************************)
\* The terminal of the model: Cols columns wide, with a prompt of PromptLen
\* bytes.
Cols == 3
PromptLen == 1

Terminal(tty) == [tty |-> tty, attr |-> OrigAttr]

InitWith(states, terminals) ==
    /\ l \in states
    /\ term \in terminals
    /\ pc = "idle"
    /\ last = NoCall
    /\ st0 = COMLIN_SUCCESS
    /\ st1 = COMLIN_SUCCESS
    /\ nb = NoTwin
    /\ sessions = 0
    /\ file = NoFile

\* The sessions a program sets up, with an empty history.
Sessions(dumbs) ==
    {NewSession(Cols, PromptLen, dumb, k) : dumb \in dumbs, k \in 1..MaxHistory}

\* The lines of the history store's caller.
HistoryLines == Lines \cup {<<CH_a, CH_b>>}

\* The history store alone: add, set_max_len, save and load, no edit.
InitHistory == InitWith(Sessions({FALSE}), {Terminal(TRUE)})

NextHistory ==
    \/ HistoryAdd(HistoryLines, Callable)
    \/ HistorySetMaxLen(0..MaxHistory, Callable)
    \/ HistorySave(BOOLEAN, {TRUE}, Callable)
    \/ HistoryLoad(BOOLEAN, Callable)
    \/ HistoryLoadFresh(Callable)

SpecHistory == InitHistory /\ [][NextHistory]_vars

\* The session after the caller added the lines of h, oldest first.
RECURSIVE WithHistory(_, _)
WithHistory(state, h) ==
    IF h = <<>>
    THEN state
    ELSE WithHistory(comlin_history_add(state, Head(h)).l, Tail(h))

\* What the reads of one comlin_edit_feed call return, by kind of key.
InsertInputs == {<<CH_a>>, <<CH_b>>}

DeleteInputs ==
    {<<BACKSPACE>>, <<CTRL_H>>, <<CTRL_D>>, <<ESC, CH_LBRACKET, CH_3, CH_TILDE>>}

MoveInputs ==
    {<<CTRL_B>>, <<CTRL_F>>, <<CTRL_A>>, <<CTRL_E>>,
     <<ESC, CH_LBRACKET, CH_D>>, <<ESC, CH_LBRACKET, CH_C>>,
     <<ESC, CH_LBRACKET, CH_H>>, <<ESC, CH_LBRACKET, CH_F>>,
     <<ESC, CH_O, CH_H>>, <<ESC, CH_O, CH_F>>}

KillInputs == {<<CTRL_K>>, <<CTRL_U>>, <<CTRL_W>>, <<CTRL_T>>, <<SPACE>>}

RecallInputs ==
    {<<CTRL_P>>, <<CTRL_N>>, <<ESC, CH_LBRACKET, CH_A>>, <<ESC, CH_LBRACKET, CH_B>>}

CompletionInputs == {<<TAB>>, <<ESC, READ_EOF>>}

EndInputs == {<<ENTER>>, <<NEWLINE>>, <<CTRL_C>>, <<READ_EOF>>, <<READ_ERR>>}

\* One edit of insert, delete and cursor keys, with and without multi-line
\* mode; every system call succeeds.
MaxSessions == 1

InitInsert == InitWith({NewSession(Cols, PromptLen, FALSE, MaxHistory)}, {Terminal(TRUE)})

NextInsert ==
    \/ Start({TRUE}, {TRUE}, {TRUE}, MaxSessions)
    \/ Feed(InsertInputs \cup DeleteInputs \cup MoveInputs, {TRUE}, {TRUE}, FALSE,
            MaxLine)
    \/ SetMultiLine({"idle", "editing"})
    \/ Stop({TRUE}, {TRUE}, {"editing", "ended"})

SpecInsert == InitInsert /\ [][NextInsert]_vars

\* One edit with the insert, delete, cursor, kill, transpose and recall
\* keys, in single-line or multi-line mode; growing the line buffer may
\* fail.
InitEdit == InitWith({NewSession(Cols, PromptLen, FALSE, MaxHistory)}, {Terminal(TRUE)})

NextEdit ==
    \/ Start({TRUE}, {TRUE}, {TRUE}, MaxSessions)
    \/ Feed(InsertInputs \cup DeleteInputs \cup MoveInputs \cup KillInputs
              \cup RecallInputs \cup {<<ENTER>>},
            {TRUE}, BOOLEAN, FALSE, MaxLine)
    \/ SetMultiLine({"idle"})
    \/ Stop({TRUE}, {TRUE}, {"editing", "ended"})

SpecEdit == InitEdit /\ [][NextEdit]_vars

\* A program that fills the history, saves and loads it, and runs an edit
\* in which the user recalls history lines and changes them.
RecallMaxLine == 1

InitRecall == InitWith({NewSession(Cols, PromptLen, FALSE, MaxHistory)}, {Terminal(TRUE)})

NextRecall ==
    \/ HistoryAdd({<<CH_a>>, <<CH_b>>}, {"idle"})
    \/ HistorySetMaxLen(1..MaxHistory, {"idle"})
    \/ HistorySave({TRUE}, {TRUE}, {"idle"})
    \/ HistoryLoad({TRUE}, {"idle"})
    \/ HistoryLoadFresh({"idle"})
    \/ Start({TRUE}, {TRUE}, {TRUE}, MaxSessions)
    \/ Feed({<<CH_a>>, <<BACKSPACE>>, <<ENTER>>} \cup RecallInputs,
            {TRUE}, {TRUE}, FALSE, RecallMaxLine)
    \/ Stop({TRUE}, {TRUE}, {"ended"})

SpecRecall == InitRecall /\ [][NextRecall]_vars

\* A program that reads lines with comlin_read_line or with the
\* non-blocking calls, on a terminal or a pipe, any write, tcgetattr or
\* tcsetattr failing; it starts at most ProtocolSessions edits.
ProtocolSessions == 3

ProtocolInputs ==
    {<<CH_a>>, <<ENTER>>, <<CTRL_C>>, <<CTRL_D>>, <<READ_EOF>>, <<READ_ERR>>}

InitProtocol ==
    InitWith({NewSession(Cols, PromptLen, FALSE, MaxHistory)},
             {Terminal(TRUE), Terminal(FALSE)})

NextProtocol ==
    \/ ReadLineStart(BOOLEAN, BOOLEAN, BOOLEAN, ProtocolSessions)
    \/ Feed(ProtocolInputs, BOOLEAN, {TRUE}, FALSE, MaxLine)
    \/ ReadLineStop(BOOLEAN, BOOLEAN)
    \/ Start(BOOLEAN, BOOLEAN, BOOLEAN, ProtocolSessions)
    \/ Stop(BOOLEAN, BOOLEAN, {"editing", "ended", "failed"})
    \/ FreeState(BOOLEAN)

SpecProtocol == InitProtocol /\ [][NextProtocol]_vars

\* A program that adds lines to the history and reads lines with the
\* non-blocking calls, on a terminal that understands escapes or on a dumb
\* one: the user types letters and ends the line with Enter, Ctrl-C,
\* Ctrl-D or the end of the input.  It starts at most SubmitSessions edits,
\* and a start may fail.
SubmitSessions == 2

InitSubmit == InitWith(Sessions(BOOLEAN), {Terminal(TRUE)})

NextSubmit ==
    \/ HistoryAdd({<<CH_a>>}, {"idle"})
    \/ SetMultiLine({"idle"})
    \/ Start(BOOLEAN, BOOLEAN, BOOLEAN, SubmitSessions)
    \/ Feed(InsertInputs \cup EndInputs \cup {<<CTRL_D>>}, {TRUE}, {TRUE}, TRUE,
            MaxLine)
    \/ Stop({TRUE}, {TRUE}, {"ended"})

SpecSubmit == InitSubmit /\ [][NextSubmit]_vars

\* A program with a completion callback: the user types letters at the end
\* of the line, presses Tab and Escape, deletes the last letter, and ends
\* the line; reads of the input may end or fail.  It starts at most
\* CompletionSessions edits.
CompletionSessions == 2

InitCompletion ==
    InitWith({[NewSession(Cols, PromptLen, FALSE, MaxHistory)
                 EXCEPT !.completion_callback = TRUE]},
             {Terminal(TRUE)})

NextCompletion ==
    \/ SetMultiLine({"idle"})
    \/ Start({TRUE}, {TRUE}, {TRUE}, CompletionSessions)
    \/ Feed(InsertInputs \cup CompletionInputs
              \cup {<<ESC>>, <<BACKSPACE>>, <<ENTER>>, <<READ_ERR>>},
            {TRUE}, {TRUE}, TRUE, MaxLine)
    \/ Stop({TRUE}, {TRUE}, {"ended"})

SpecCompletion == InitCompletion /\ [][NextCompletion]_vars

\* A program that adds each submitted line to the history, as the example
\* program does, and whose user recalls history lines with Ctrl-P and
\* Ctrl-N, changes them and submits them.  It starts at most
\* ReversalSessions edits of lines of at most ReversalMaxLine bytes.
ReversalSessions == 2
ReversalMaxLine == 1

InitReversal ==
    InitWith({NewSession(Cols, PromptLen, FALSE, MaxHistory)}, {Terminal(TRUE)})

NextReversal ==
    \/ HistoryAdd({<<CH_a>>, <<CH_b>>}, {"idle"})
    \/ Start({TRUE}, {TRUE}, {TRUE}, ReversalSessions)
    \/ Feed({<<CTRL_P>>, <<CTRL_N>>, <<CH_a>>, <<BACKSPACE>>, <<ENTER>>},
            {TRUE}, {TRUE}, TRUE, ReversalMaxLine)
    \/ Stop({TRUE}, {TRUE}, {"ended"})

SpecReversal == InitReversal /\ [][NextReversal]_vars

\* A multi-line session on terminals of 1 to Cols columns with prompts of
\* up to PromptLen bytes, whose user types letters, deletes them, moves the
\* cursor to either end of the line and clears the screen, while the
\* program hides and shows the line.
RowsSessions == 1

InitRows ==
    InitWith({[NewSession(c, p, FALSE, MaxHistory) EXCEPT !.mlmode = TRUE] :
                c \in 1..Cols, p \in 0..PromptLen},
             {Terminal(TRUE)})

NextRows ==
    \/ Start({TRUE}, {TRUE}, {TRUE}, RowsSessions)
    \/ Feed({<<CH_a>>, <<BACKSPACE>>, <<CTRL_A>>, <<CTRL_E>>, <<CTRL_L>>},
            {TRUE}, {TRUE}, TRUE, MaxLine)
    \/ Hide
    \/ Show
    \/ Stop({TRUE}, {TRUE}, {"editing"})

SpecRows == InitRows /\ [][NextRows]_vars

\* A program that reads passwords: it turns the masked mode on or off and
\* picks the layout before an edit, on a terminal that is dumb or not; the
\* user types letters, deletes them, moves the cursor left, clears the
\* screen and submits.
MaskSessions == 1

InitMask ==
    InitWith({NewSession(Cols, PromptLen, dumb, MaxHistory) : dumb \in BOOLEAN},
             {Terminal(TRUE)})

NextMask ==
    \/ MaskMode({"idle"})
    \/ SetMultiLine({"idle"})
    \/ Start({TRUE}, {TRUE}, {TRUE}, MaskSessions)
    \/ Feed(InsertInputs \cup {<<BACKSPACE>>, <<CTRL_B>>, <<CTRL_L>>, <<ENTER>>},
            {TRUE}, {TRUE}, TRUE, MaxLine)
    \/ Stop({TRUE}, {TRUE}, {"ended"})

SpecMask == InitMask /\ [][NextMask]_vars

\* A session on a dumb terminal, with a completion callback set or not: the
\* user types letters, control bytes, bytes above 127 and the bytes of
\* escape sequences, and ends the line.  It starts at most DumbSessions
\* edits.
DumbSessions == 1

DumbInputs ==
    {<<CH_a>>, <<ESC>>, <<TAB>>, <<BACKSPACE>>, <<CTRL_A>>, <<CH_LBRACKET>>,
     <<255>>, <<ENTER>>, <<NEWLINE>>, <<CTRL_C>>, <<CTRL_D>>}

InitDumb ==
    InitWith({[NewSession(Cols, PromptLen, TRUE, MaxHistory)
                 EXCEPT !.completion_callback = cb] : cb \in BOOLEAN},
             {Terminal(TRUE)})

NextDumb ==
    \/ MaskMode({"idle"})
    \/ Start({TRUE}, {TRUE}, {TRUE}, DumbSessions)
    \/ Feed(DumbInputs, BOOLEAN, {TRUE}, TRUE, MaxLine)
    \/ Stop({TRUE}, {TRUE}, {"ended"})

SpecDumb == InitDumb /\ [][NextDumb]_vars

\* A user who types letters and control bytes that no editing operation is
\* bound to, moves the cursor left and submits.  It starts at most
\* ControlSessions edits.
ControlSessions == 1

\* The bytes below 0x20 with no case in the switch of comlin_edit_feed and
\* no name in enum KEY_ACTION but KEY_NULL.
UnmappedControls == {0, 7, 15} \cup (17..19) \cup {22} \cup (24..26) \cup (28..31)

InitControl ==
    InitWith({NewSession(Cols, PromptLen, FALSE, MaxHistory)}, {Terminal(TRUE)})

NextControl ==
    \/ SetMultiLine({"idle"})
    \/ Start({TRUE}, {TRUE}, {TRUE}, ControlSessions)
    \/ Feed({<<CH_a>>, <<CTRL_B>>, <<ENTER>>, <<0>>, <<7>>, <<31>>},
            {TRUE}, {TRUE}, TRUE, MaxLine)
    \/ Stop({TRUE}, {TRUE}, {"ended"})

SpecControl == InitControl /\ [][NextControl]_vars

\* A user whose terminal sends escape sequences, whole or cut short by the
\* end of the input or a failing read, for the cursor keys and Delete, on
\* lines of letters.  It starts at most EscapeSessions edits.
EscapeSessions == 1

WholeSequences ==
    {<<ESC, CH_LBRACKET, CH_D>>, <<ESC, CH_LBRACKET, CH_3, CH_TILDE>>}

\* The reads of a sequence up to the one that ends or fails.
ShortSequences ==
    {<<ESC, e>> : e \in {READ_EOF, READ_ERR}}
    \cup {<<ESC, b, e>> : b \in {CH_LBRACKET, CH_O}, e \in {READ_EOF, READ_ERR}}
    \cup {<<ESC, CH_LBRACKET, CH_3, e>> : e \in {READ_EOF, READ_ERR}}

InitEscape ==
    InitWith({NewSession(Cols, PromptLen, FALSE, MaxHistory)}, {Terminal(TRUE)})

NextEscape ==
    \/ HistoryAdd({<<CH_b>>}, {"idle"})
    \/ SetMultiLine({"idle"})
    \/ Start({TRUE}, {TRUE}, {TRUE}, EscapeSessions)
    \/ Feed({<<CH_a>>} \cup WholeSequences \cup ShortSequences,
            {TRUE}, {TRUE}, TRUE, MaxLine)
    \/ Stop({TRUE}, {TRUE}, {"editing"})

SpecEscape == InitEscape /\ [][NextEscape]_vars

\* A user who types letters and moves the cursor left while the program is
\* short of memory: a realloc of the line buffer may fail.  It starts at
\* most MemorySessions edits.
MemorySessions == 1

InitMemory ==
    InitWith({NewSession(Cols, PromptLen, FALSE, MaxHistory)}, {Terminal(TRUE)})

NextMemory ==
    \/ SetMultiLine({"idle"})
    \/ Start({TRUE}, {TRUE}, {TRUE}, MemorySessions)
    \/ Feed({<<CH_a>>, <<CH_b>>, <<CTRL_B>>}, {TRUE}, BOOLEAN, TRUE, MaxLine)
    \/ Stop({TRUE}, {TRUE}, {"editing"})

SpecMemory == InitMemory /\ [][NextMemory]_vars

\* A user who types letters, NUL, bytes above 127 and Tab, on a dumb
\* terminal or not, with a completion callback set or not, while reads of
\* the input may end or fail.  It starts at most ReadSessions edits.
ReadSessions == 1

ReadInputs ==
    {<<CH_a>>, <<0>>, <<128>>, <<255>>, <<TAB>>, <<ENTER>>,
     <<READ_EOF>>, <<READ_ERR>>, <<ESC, READ_ERR>>}

InitRead ==
    InitWith({[NewSession(Cols, PromptLen, dumb, MaxHistory)
                 EXCEPT !.completion_callback = cb] :
                dumb \in BOOLEAN, cb \in BOOLEAN},
             {Terminal(TRUE)})

NextRead ==
    \/ SetMultiLine({"idle"})
    \/ Start({TRUE}, {TRUE}, {TRUE}, ReadSessions)
    \/ Feed(ReadInputs, {TRUE}, {TRUE}, TRUE, MaxLine)
    \/ Stop({TRUE}, {TRUE}, {"ended"})

SpecRead == InitRead /\ [][NextRead]_vars

\* A program that adds lines to the history and saves it to a file that
\* may not open and whose writes may fail.
InitSave == InitWith(Sessions({FALSE}), {Terminal(TRUE)})

NextSave ==
    \/ HistoryAdd(Lines, {"idle"})
    \/ HistorySave(BOOLEAN, BOOLEAN, {"idle"})

SpecSave == InitSave /\ [][NextSave]_vars

\* A program with a completion callback that hides and shows the line
\* between the keys of the user, who types the letter a at the end of the
\* line, deletes the last letter and presses Tab.  It starts at most
\* HideSessions edits of lines of at most HideMaxLine bytes.
HideSessions == 1
HideMaxLine == 2

HideInputs == {<<CH_a>>, <<TAB>>, <<BACKSPACE>>}

InitHide ==
    InitWith({[NewSession(Cols, PromptLen, FALSE, MaxHistory)
                 EXCEPT !.completion_callback = TRUE]},
             {Terminal(TRUE)})

NextHide ==
    \/ HistoryAdd({<<CH_b>>}, {"idle"})
    \/ SetMultiLine({"idle"})
    \/ Start({TRUE}, {TRUE}, {TRUE}, HideSessions)
    \/ Feed(HideInputs, {TRUE}, {TRUE}, TRUE, HideMaxLine)
    \/ Hide
    \/ Show
    \/ Stop({TRUE}, {TRUE}, {"editing"})

SpecHide == InitHide /\ [][NextHide]_vars

\* A user who types letters, moves the cursor left and presses Ctrl-D, in an
\* edit of a program that keeps a history.  It starts at most EofSessions
\* edits.
EofSessions == 2
EofMaxLine == 2
EofInputs == {<<CH_a>>, <<CH_b>>, <<CTRL_B>>, <<CTRL_D>>}

InitEof ==
    InitWith({NewSession(Cols, PromptLen, FALSE, MaxHistory)}, {Terminal(TRUE)})

NextEof ==
    \/ HistoryAdd(Lines, {"idle"})
    \/ SetMultiLine({"idle"})
    \/ Start({TRUE}, {TRUE}, {TRUE}, EofSessions)
    \/ Feed(EofInputs, {TRUE}, {TRUE}, TRUE, EofMaxLine)
    \/ Stop({TRUE}, {TRUE}, {"editing", "ended"})

SpecEof == InitEof /\ [][NextEof]_vars

\* A user who types words and spaces, moves the cursor left and presses
\* Ctrl-W.  It starts at most WordSessions edits of lines of at most
\* WordMaxLine bytes.
WordSessions == 1
WordMaxLine == 4
WordInputs == {<<CH_a>>, <<SPACE>>, <<CTRL_B>>, <<CTRL_W>>}

InitWord ==
    InitWith({NewSession(Cols, PromptLen, FALSE, MaxHistory)}, {Terminal(TRUE)})

NextWord ==
    \/ SetMultiLine({"idle"})
    \/ Start({TRUE}, {TRUE}, {TRUE}, WordSessions)
    \/ Feed(WordInputs, {TRUE}, {TRUE}, TRUE, WordMaxLine)
    \/ Stop({TRUE}, {TRUE}, {"editing"})

SpecWord == InitWord /\ [][NextWord]_vars

\* comlin_hide(l) during an edit, by a program that shows the line again
\* before it feeds the next key.
HideLine ==
    /\ pc = "editing"
    /\ l' = comlin_hide(l)
    /\ pc' = After(l', "hidden")
    /\ last' = Returned("hide", COMLIN_SUCCESS, <<>>)
    /\ nb' = NoTwin
    /\ UNCHANGED <<term, st0, st1, sessions, file>>

\* comlin_show(l) of a hidden line
ShowLine ==
    /\ pc = "hidden"
    /\ l' = comlin_show(l)
    /\ pc' = After(l', "editing")
    /\ last' = Returned("show", COMLIN_SUCCESS, <<>>)
    /\ nb' = NoTwin
    /\ UNCHANGED <<term, st0, st1, sessions, file>>

\* A multi-line session on terminals of 1 to Cols columns with prompts of
\* up to PromptLen bytes, whose user types letters, deletes them and moves
\* the cursor, while the program hides the line and shows it again.  It
\* starts at most EraseSessions edits of lines of at most EraseMaxLine
\* bytes.
EraseSessions == 1
EraseMaxLine == 4
EraseInputs == {<<CH_a>>, <<BACKSPACE>>, <<CTRL_A>>, <<CTRL_E>>, <<CTRL_B>>}

InitErase ==
    InitWith({[NewSession(c, p, FALSE, MaxHistory) EXCEPT !.mlmode = TRUE] :
                c \in 1..Cols, p \in 0..PromptLen},
             {Terminal(TRUE)})

NextErase ==
    \/ Start({TRUE}, {TRUE}, {TRUE}, EraseSessions)
    \/ Feed(EraseInputs, {TRUE}, {TRUE}, TRUE, EraseMaxLine)
    \/ HideLine
    \/ ShowLine
    \/ Stop({TRUE}, {TRUE}, {"editing"})

SpecErase == InitErase /\ [][NextErase]_vars

\* A single-line session on terminals of 1 to Cols columns with prompts of
\* up to PromptLen bytes, whose user types letters, deletes them and moves
\* the cursor, while the program hides and shows the line.  It starts at
\* most WindowSessions edits.
WindowSessions == 1

InitWindow ==
    InitWith({NewSession(c, p, FALSE, MaxHistory) : c \in 1..Cols, p \in 0..PromptLen},
             {Terminal(TRUE)})

NextWindow ==
    \/ Start({TRUE}, {TRUE}, {TRUE}, WindowSessions)
    \/ Feed({<<CH_a>>, <<BACKSPACE>>, <<CTRL_A>>, <<CTRL_E>>, <<CTRL_B>>},
            {TRUE}, {TRUE}, TRUE, MaxLine)
    \/ Hide
    \/ Show
    \/ Stop({TRUE}, {TRUE}, {"editing"})

SpecWindow == InitWindow /\ [][NextWindow]_vars

\* A user who types a letter and presses the cursor keys, Home, End and
\* Delete, which the terminal sends as escape sequences, and some keys the
\* editor does not know, in an edit with a history line to recall.  It starts at most KeySessions
\* edits of lines of at most KeyMaxLine bytes.
KeySessions == 1
KeyMaxLine == 1

\* The sequences with the control key for the same command.
KnownSequences ==
    {<<ESC, CH_LBRACKET, CH_A>>, <<ESC, CH_LBRACKET, CH_B>>,
     <<ESC, CH_LBRACKET, CH_C>>, <<ESC, CH_LBRACKET, CH_D>>,
     <<ESC, CH_LBRACKET, CH_H>>, <<ESC, CH_LBRACKET, CH_F>>,
     <<ESC, CH_O, CH_H>>, <<ESC, CH_O, CH_F>>,
     <<ESC, CH_LBRACKET, CH_3, CH_TILDE>>}

\* Sequences of other keys: Page Up, Insert, F1 and others.
OtherSequences ==
    {<<ESC, CH_LBRACKET, CH_5, CH_TILDE>>, <<ESC, CH_LBRACKET, CH_3, CH_a>>,
     <<ESC, CH_LBRACKET, CH_Z>>, <<ESC, CH_O, CH_A>>, <<ESC, CH_a, CH_a>>}

InitKey ==
    InitWith({comlin_history_add(NewSession(Cols, PromptLen, FALSE, MaxHistory),
                                 <<CH_b>>).l},
             {Terminal(TRUE)})

NextKey ==
    \/ Start({TRUE}, {TRUE}, {TRUE}, KeySessions)
    \/ Feed({<<CH_a>>} \cup KnownSequences \cup OtherSequences,
            {TRUE}, {TRUE}, TRUE, KeyMaxLine)
    \/ Stop({TRUE}, {TRUE}, {"editing"})

SpecKey == InitKey /\ [][NextKey]_vars

\* A program that keeps a history, changes its size between and during
\* edits and may run out of memory when an edit starts; the user types a
\* letter, deletes it, recalls history lines and ends the line with Enter
\* or Ctrl-D.  It starts at most PlaceholderSessions edits of lines of at most PlaceholderMaxLine
\* bytes.
PlaceholderSessions == 2
PlaceholderMaxLine == 1

InitPlaceholder == InitWith(Sessions({FALSE}), {Terminal(TRUE)})

NextPlaceholder ==
    \/ HistoryAdd({<<>>, <<CH_b>>}, {"idle"})
    \/ HistorySetMaxLen(0..MaxHistory, {"idle", "editing"})
    \/ Start({TRUE}, {TRUE}, {TRUE}, PlaceholderSessions)
    \/ StartNoMemory({TRUE}, {TRUE}, {TRUE}, PlaceholderSessions)
    \/ Feed({<<CH_a>>, <<BACKSPACE>>, <<CTRL_P>>, <<CTRL_N>>, <<ENTER>>, <<CTRL_D>>},
            {TRUE}, {TRUE}, TRUE, PlaceholderMaxLine)
    \/ Stop({TRUE}, {TRUE}, {"ended"})

SpecPlaceholder == InitPlaceholder /\ [][NextPlaceholder]_vars

\* A program that reads lines with comlin_read_line on terminals of 1 to
\* Cols columns with prompts of 0 to PromptLen bytes, in plain or masked
\* mode; the input is finite: the user types at most ReadLineMaxLine letters
\* and then Enter, or the input ends.  It reads at most ReadLineSessions
\* lines.
ReadLineSessions == 2
ReadLineMaxLine == 2

ReadLineInputs == {<<CH_a>>, <<ENTER>>, <<READ_EOF>>}

InitReadLine ==
    InitWith({NewSession(c, p, FALSE, MaxHistory) : c \in 1..Cols, p \in 0..PromptLen},
             {Terminal(TRUE)})

NextReadLine ==
    \/ MaskMode({"idle"})
    \/ ReadLineStart({TRUE}, {TRUE}, {TRUE}, ReadLineSessions)
    \/ Feed(ReadLineInputs, {TRUE}, {TRUE}, FALSE, ReadLineMaxLine)
    \/ ReadLineStop({TRUE}, {TRUE})

SpecReadLine == InitReadLine /\ [][NextReadLine]_vars

\* The loop of comlin_read_line calls comlin_edit_feed again while it
\* returns COMLIN_READING, each read of the finite input returns, and
\* comlin_edit_stop is called when the loop is left.
SpecReadLineFair ==
    /\ SpecReadLine
    /\ WF_vars(Feed(ReadLineInputs, {TRUE}, {TRUE}, FALSE, ReadLineMaxLine))
    /\ WF_vars(ReadLineStop({TRUE}, {TRUE}))

(***************************************************************************)
(* Properties of the history store.                                        *)
(***************************************************************************)
NoConsecutiveDuplicates(h) == \A i \in 1..(Len(h) - 1) : h[i] # h[i + 1]

\* C3: whatever lines are added, with whatever history_max_len >= 1, the
\* history never holds two consecutive entries with the same text.
C3_AddKeepsNoConsecutiveDuplicates == NoConsecutiveDuplicates(l.history)

\* An add of the line the newest entry already holds was just suppressed.
C3_DuplicateSuppressed ==
    /\ last.op = "history_add"
    /\ last.st = 0
    /\ Len(l.history) = 2
    /\ l.history[2] = last.arg

\* C5: the history never holds more than history_max_len entries, and an
\* add to a full history whose newest entry differs from the line drops the
\* oldest entry and appends the line, the rest staying in order.
C5_SlidingWindow ==
    [][/\ Len(l'.history) <= l'.history_max_len
       /\ (/\ last'.op = "history_add"
           /\ Len(l.history) = l.history_max_len
           /\ l.history[Len(l.history)] # last'.arg)
          => l'.history = Append(Tail(l.history), last'.arg)]_vars

\* With history_max_len = 3 the lines "", a, b were added and saved, and a
\* fourth line was added: the history is the last three.
C5_OldestEvicted ==
    /\ last.op = "history_add"
    /\ last.st = 1
    /\ l.history_max_len = 3
    /\ file = SaveBytes(<< <<>>, <<CH_a>>, <<CH_b>> >>)
    /\ l.history = << <<CH_a>>, <<CH_b>>, <<CH_a, CH_b>> >>

\* C6: set_max_len(k) with 1 <= k < count keeps exactly the k most recent
\* entries in their order; with k >= count it keeps every entry.
C6_SetMaxLenKeepsMostRecent ==
    [][(last'.op = "history_set_max_len" /\ last'.arg[1] >= 1)
       => LET k == last'.arg[1]
              count == Len(l.history)
          IN  /\ l'.history_max_len = k
              /\ k < count => l'.history = SubSeq(l.history, count - k + 1, count)
              /\ k >= count => l'.history = l.history]_vars

\* A history of two entries, saved as a and b, was cut to its newest entry.
C6_ShrunkToNewest ==
    /\ last.op = "history_set_max_len"
    /\ last.arg = <<1>>
    /\ file = SaveBytes(<< <<CH_a>>, <<CH_b>> >>)
    /\ l.history = << <<CH_b>> >>

\* C4: in every state a session reaches - through add, load, set_max_len,
\* start, feed (history-prev and history-next included) and submit - no two
\* consecutive stored history entries have the same text.
C4_SessionKeepsNoConsecutiveDuplicates ==
    pc # "crashed" => NoConsecutiveDuplicates(l.history)

\* C7: for every history a session can reach, saving it and then loading
\* the file into a fresh session with the same history_max_len gives the
\* same entries in the same order.
C7_SaveLoadRoundTrip ==
    [][(last.op = "history_save" /\ last.st = 0 /\ last'.op = "history_load_fresh")
       => last'.arg = l.history]_vars

(***************************************************************************)
(* Properties of the line buffer.                                          *)
(***************************************************************************)
\* data[length] exists and is the terminator.
Terminated(b) == b.length < b.size /\ b.data[b.length + 1] = 0

\* C1: during an edit, after any keystrokes, the cursor is within
\* [0, length] of the line buffer.
C1_CursorWithinLine ==
    (pc \in {"editing", "ended"} /\ last.op = "feed") => l.pos <= l.buf.length

\* C2: after every insert (at the end of the line or in the middle),
\* backspace and delete-forward of an edit, data[length] of the line
\* buffer is the terminator.
C2_TerminatorAtLength ==
    (pc = "editing" /\ last.op = "feed") => Terminated(l.buf)

(***************************************************************************)
(* Properties of the editing protocol and of raw mode.                     *)
(***************************************************************************)
\* C8: comlin_read_line ends with the status, the buffer text, the history
\* and the raw-mode flag that comlin_edit_start, comlin_edit_feed until it
\* no longer returns READING, and comlin_edit_stop end with on the same
\* input and the same system-call outcomes.
C8_BlockingEqualsNonBlocking ==
    (last.op = "read_line" /\ nb.on)
    => /\ last.st = nb.st
       /\ comlin_text(l) = comlin_text(nb.l)
       /\ l.history = nb.l.history
       /\ l.rawmode = nb.l.rawmode

\* C14: comlin_read_line returns the status of comlin_edit_start when that
\* is not COMLIN_SUCCESS; otherwise the status of the comlin_edit_feed
\* that ended the loop when that is not COMLIN_SUCCESS, whatever
\* comlin_edit_stop returns after it; and the status of comlin_edit_stop
\* only when start and feed returned COMLIN_SUCCESS.
C14_FirstErrorIsReturned ==
    [][(last'.op = "read_line" /\ pc' \in {"idle", "failed"})
       => IF pc = "rl_stop"
          THEN /\ last.op = "feed"
               /\ last'.st = IF last.st # COMLIN_SUCCESS THEN last.st ELSE st1'
          ELSE /\ pc' = "failed"
               /\ st0' \in {COMLIN_BAD_TERMINAL, COMLIN_BAD_WRITE}
               /\ last'.st = st0']_vars

\* comlin_read_line returned the interrupt of Ctrl-C although the
\* comlin_edit_stop after it failed to restore the terminal.
C14_InterruptBeforeStopError ==
    /\ last.op = "read_line"
    /\ pc = "idle"
    /\ last.st = COMLIN_INTERRUPTED
    /\ st1 = COMLIN_BAD_TERMINAL
    /\ l.rawmode

\* C9: when comlin_read_line has returned - a line, end of input, an
\* interrupt or an error of start or feed - raw mode is off, unless the
\* tcsetattr that restores the terminal failed.
C9_ReadLineLeavesRawMode ==
    (last.op = "read_line" /\ st1 # COMLIN_BAD_TERMINAL) => ~l.rawmode

\* C10: whenever raw mode is on, the saved attributes are those the
\* terminal had before raw mode was first entered, and a comlin_edit_stop
\* that succeeds leaves the terminal with those attributes, whatever
\* start, feed, stop and read_line calls came before.
C10_SavedAttributesAreOriginal ==
    /\ l.rawmode => l.cooked = OrigAttr
    /\ (last.op = "stop" /\ last.st = COMLIN_SUCCESS) => term.attr = OrigAttr

(***************************************************************************)
(* Properties of the end of an edit.                                       *)
(***************************************************************************)
\* The statuses with which comlin_edit_feed reports that the line was
\* submitted, aborted or canceled.
EndStatuses == {COMLIN_SUCCESS, COMLIN_END, COMLIN_INTERRUPTED}

\* C11: the comlin_edit_feed call that ends an edit - Enter, Ctrl-C, Ctrl-D
\* on an empty line or the end of the input, on a normal or a dumb terminal
\* - removes the newest history entry, the slot comlin_edit_start reserved
\* for the line being edited.
C11_EndRemovesReservedSlot ==
    [][(pc = "editing" /\ pc' = "ended" /\ last'.st \in EndStatuses)
       => /\ Len(l.history) >= 1
          /\ l'.history = SubSeq(l.history, 1, Len(l.history) - 1)]_vars

\* C13: after a comlin_edit_start that returned COMLIN_SUCCESS the line is
\* empty, the cursor is 0, oldpos and oldrows are 0, the newest history
\* entry is empty, and the call has written the prompt and nothing else.
C13_StartResetsAndPrompts ==
    (last.op = "start" /\ last.st = COMLIN_SUCCESS)
    => /\ l.buf.length = 0
       /\ comlin_text(l) = <<>>
       /\ l.pos = 0
       /\ l.oldpos = 0
       /\ l.oldrows = 0
       /\ Len(l.history) >= 1
       /\ l.history[Len(l.history)] = <<>>
       /\ l.out = Prompt(l)

\* The second edit of a session was started in multi-line mode after a
\* line that had b as its second letter.
C13_SecondStart ==
    /\ last.op = "start"
    /\ last.st = COMLIN_SUCCESS
    /\ sessions = 2
    /\ l.mlmode
    /\ l.rawmode
    /\ l.buf.data[2] = CH_b
    /\ l.history = << <<CH_a>>, <<>> >>

\* The text a session holds is printable.
Printable(c) == c \in 32..126

\* C12: printable bytes typed one after the other are appended to the
\* text of the session; Enter then returns COMLIN_SUCCESS and leaves the
\* text as typed, with no newline or carriage return at its end, and the
\* comlin_edit_stop that follows leaves it unchanged.
C12_EnterYieldsTypedText ==
    [][/\ (last'.op = "start" /\ last'.st = COMLIN_SUCCESS)
          => comlin_text(l') = <<>>
       /\ (pc = "editing" /\ last'.op = "feed" /\ Printable(last'.arg[1]))
          => /\ last'.st = COMLIN_READING
             /\ comlin_text(l') = Append(comlin_text(l), last'.arg[1])
       /\ (pc = "editing" /\ last'.op = "feed" /\ last'.arg[1] \in {ENTER, NEWLINE})
          => /\ last'.st = COMLIN_SUCCESS
             /\ comlin_text(l') = comlin_text(l)
       /\ (pc = "ended" /\ last'.op = "stop")
          => comlin_text(l') = comlin_text(l)]_vars

\* The line "aba" was typed, submitted with Enter and the edit stopped.
C12_LineSubmitted ==
    /\ last.op = "stop"
    /\ last.st = COMLIN_SUCCESS
    /\ comlin_text(l) = <<CH_a, CH_b, CH_a>>
    /\ l.buf.size > Cols

(***************************************************************************)
(* Properties of completion.                                               *)
(***************************************************************************)
\* What a full refresh writes for the session s showing text with the
\* cursor at its end.
Shows(s, text) ==
    refresh_line(Entered([s EXCEPT !.buf = [data |-> text \o <<0>>,
                                            length |-> Len(text),
                                            size |-> s.buf.size],
                                   !.pos = Len(text)])).out

\* The reads of the call that returned last were those of one Tab.
TabPressed(call) == call.op = "feed" /\ call.arg = <<TAB>>

\* C15: with n >= 1 candidates for the line, the first Tab of a run of
\* Tabs selects candidate 0 and every further one the next index modulo
\* n + 1, index n being the original line; the call writes a bell exactly
\* when it reaches index n, shows the selected candidate (or the original
\* line with its cursor) and leaves line and cursor as they are.
C15_TabCyclesThroughCandidates ==
    [][(pc = "editing" /\ TabPressed(last') /\ l.completion_callback
        /\ Len(completion(comlin_text(l))) >= 1)
       => LET lc == completion(comlin_text(l))
              n == Len(lc)
              idx == l'.completion_idx
          IN  /\ last'.st = COMLIN_READING
              /\ idx = IF TabPressed(last) THEN (l.completion_idx + 1) % (n + 1) ELSE 0
              /\ l'.out = IF idx = n
                          THEN <<BEL>> \o refresh_line(Entered(l)).out
                          ELSE Shows(l, lc[idx + 1])
              /\ l'.buf = l.buf
              /\ l'.pos = l.pos]_vars

\* The third Tab in a row on the line "a", in the second edit of the
\* session: the bell, and the line "a" drawn again.
C15_ThirdTabWraps ==
    /\ pc = "editing"
    /\ TabPressed(last)
    /\ sessions = 2
    /\ l.completion_idx = 2
    /\ comlin_text(l) = <<CH_a>>
    /\ l.out = <<BEL>> \o Shows(l, <<CH_a>>)

\* A candidate is on display: a completion round is on and completion_idx
\* is the index of a candidate for the line.
CandidateShown(s) ==
    /\ s.completion_callback
    /\ s.in_completion
    /\ s.completion_idx < Len(completion(comlin_text(s)))

\* C16: while a candidate is displayed, a key other than Tab and Escape
\* puts the candidate in the line with the cursor at its end and is then
\* handled as usual (a letter is inserted after the candidate, Backspace
\* deletes its last byte, Enter submits it); Escape leaves line and cursor
\* as they were and is consumed, feed returning READING after that one
\* read; either way the completion round is over.
C16_KeyCommitsEscapeDiscards ==
    [][(pc = "editing" /\ last'.op = "feed" /\ CandidateShown(l)
        /\ last'.arg[1] \in 0..255 /\ last'.arg[1] # TAB)
       => LET cand == completion(comlin_text(l))[l.completion_idx + 1]
              key == last'.arg[1]
          IN  /\ ~l'.in_completion
              /\ key = ESC
                 => /\ last'.arg = <<ESC>>
                    /\ last'.st = COMLIN_READING
                    /\ l'.buf = l.buf
                    /\ l'.pos = l.pos
              /\ Printable(key)
                 => /\ last'.st = COMLIN_READING
                    /\ comlin_text(l') = Append(cand, key)
                    /\ l'.buf.length = Len(cand) + 1
                    /\ l'.pos = Len(cand) + 1
              /\ key = BACKSPACE
                 => /\ last'.st = COMLIN_READING
                    /\ comlin_text(l') = SubSeq(cand, 1, Len(cand) - 1)
                    /\ l'.pos = Len(cand) - 1
              /\ key = ENTER
                 => /\ last'.st = COMLIN_SUCCESS
                    /\ comlin_text(l') = cand
                    /\ l'.pos = Len(cand)]_vars

\* The letter b was typed while the candidate "ab" was displayed for the
\* line "a": the line is "abb", drawn once for the candidate and once for
\* the letter.
C16_CandidateCommittedByLetter ==
    /\ pc = "editing"
    /\ last.op = "feed"
    /\ last.arg = <<CH_b>>
    /\ ~l.mlmode
    /\ ~l.in_completion
    /\ comlin_text(l) = <<CH_a, CH_b, CH_b>>
    /\ l.pos = 3
    /\ l.out = Shows(l, <<CH_a, CH_b>>) \o Shows(l, <<CH_a, CH_b, CH_b>>)

(***************************************************************************)
(* Properties of history recall.                                           *)
(***************************************************************************)
\* The reads of the call that returned last were those of the key.
KeyPressed(call, key) == call.op = "feed" /\ call.arg = <<key>>

\* The entries stored before the slot of the line being edited.
Stored(s) == SubSeq(s.history, 1, Len(s.history) - 1)

\* C17: history-prev pressed first in an edit with a stored entry shows the
\* newest stored entry and recall index 1; from recall index i,
\* history-prev shows the (i + 1)-th newest stored entry, keeping the live
\* buffer in the newest slot when it leaves the live line, and history-next
\* shows the (i - 1)-th newest one or, back at index 0, the live buffer as
\* it was left: j times history-prev followed by j times history-next ends
\* on the live line with the buffer it had.
C17_RecallIsReversible ==
    [][/\ (pc = "editing" /\ last.op = "start" /\ KeyPressed(last', CTRL_P)
           /\ Len(l.history) > 1)
          => /\ l'.history_index = 1
             /\ comlin_text(l') = l.history[Len(l.history) - 1]
             /\ Stored(l') = Stored(l)
       /\ (pc = "editing" /\ KeyPressed(last', CTRL_P)
           /\ l.history_index < Len(l.history) - 1)
          => /\ l'.history_index = l.history_index + 1
             /\ comlin_text(l') = l.history[Len(l.history) - l'.history_index]
             /\ l'.history[Len(l.history)] =
                  IF l.history_index = 0
                  THEN comlin_text(l)
                  ELSE l.history[Len(l.history)]
       /\ (pc = "editing" /\ KeyPressed(last', CTRL_N)
           /\ l.history_index > 0 /\ l.history_index <= Len(l.history) - 1)
          => /\ l'.history_index = l.history_index - 1
             /\ comlin_text(l') = l.history[Len(l.history) - l'.history_index]
             /\ l'.history[Len(l.history)] = l.history[Len(l.history)]]_vars

\* C18: history-next on the live line and history-prev on the oldest entry
\* change nothing: not the line, the cursor, the recall index or any
\* stored history entry.
C18_RecallIsClampedAtBothEnds ==
    [][(/\ pc = "editing"
        /\ \/ KeyPressed(last', CTRL_N) /\ l.history_index = 0
           \/ KeyPressed(last', CTRL_P) /\ l.history_index >= Len(l.history) - 1)
       => /\ last'.st = COMLIN_READING
          /\ l'.buf = l.buf
          /\ l'.pos = l.pos
          /\ l'.history_index = l.history_index
          /\ Stored(l') = Stored(l)]_vars

(***************************************************************************)
(* Properties of the multi-line refresh.                                   *)
(***************************************************************************)
\* ceil((promptLen + bufferLength) / columns)
Rows(s) == (s.plen + s.buf.length + s.cols - 1) \div s.cols

\* The cursor is at the end of a line that ends at the right edge.
AtEdge(s) ==
    s.pos # 0 /\ s.pos = s.buf.length /\ (s.pos + s.plen) % s.cols = 0

\* The step is a call that refreshes the line: a key that changes the line
\* or the cursor or clears the screen, or comlin_show or comlin_hide.
Refreshed ==
    /\ pc = "editing" /\ pc' = "editing" /\ l.mlmode
    /\ \/ last'.op = "feed" /\ (l'.buf # l.buf \/ l'.pos # l.pos)
       \/ KeyPressed(last', CTRL_L)
       \/ last'.op \in {"show", "hide"}

\* C19 as stated: the row count recorded by a multi-line refresh is
\* ceil((promptLen + bufferLength) / columns), whatever the cursor
\* position.
C19_RowsIsCeiling == [][Refreshed => l'.oldrows = Rows(l')]_vars

\* C19, amended: the row count recorded by a multi-line refresh is
\* ceil((promptLen + bufferLength) / columns), and one more when the
\* refresh writes the line with the cursor at the end of a non-empty buffer
\* that ends at the right edge of the terminal.
C19_RowsIsCeilingPlusEdgeRow ==
    [][Refreshed =>
         l'.oldrows = IF last'.op # "hide" /\ AtEdge(l')
                      THEN Rows(l') + 1
                      ELSE Rows(l')]_vars

C19_LineEndsAtEdge ==
    /\ pc = "editing" /\ l.mlmode
    /\ KeyPressed(last, CH_a)
    /\ l.cols = Cols /\ l.buf.length = Cols - l.plen
    /\ AtEdge(l)
    /\ l.oldrows = 2

(***************************************************************************)
(* Properties of the masked mode.                                          *)
(***************************************************************************)
\* Another text of the same length: a for b and b for a.
Swapped(c) == IF c = CH_a THEN CH_b ELSE IF c = CH_b THEN CH_a ELSE c

SwappedText(t) == [i \in DOMAIN t |-> Swapped(t[i])]

\* The session of a user who typed the other text.
Retyped(s) == [s EXCEPT !.buf.data = SwappedText(@)]

\* C20: in masked mode a key writes the same bytes to the terminal in a
\* session and in the session that holds another text of the same length
\* and reads the corresponding key, while each buffer holds its own text.
C20_MaskedOutputIndependentOfText ==
    [][(pc = "editing" /\ l.maskmode /\ last'.op = "feed" /\ ~l'.ub)
       => LET t == comlin_edit_feed(Retyped(l), SwappedText(last'.arg),
                                    TRUE, TRUE)
          IN  /\ t.st = last'.st
              /\ t.l.out = l'.out
              /\ t.l.buf = Retyped(l').buf]_vars

(***************************************************************************)
(* Properties of the dumb-terminal mode.                                   *)
(***************************************************************************)
\* Reads that start an escape sequence or a completion on other terminals.
DumbProbes == {<<ESC, CH_LBRACKET, CH_A>>, <<ESC, CH_O, CH_H>>, <<TAB, ESC>>}

C22_UnmappedControlIsInert ==
    [][(pc = "editing" /\ ~l.dumb /\ last'.op = "feed"
        /\ last'.arg[1] \in UnmappedControls)
       => /\ last'.st = COMLIN_READING
          /\ l'.buf = l.buf
          /\ l'.pos = l.pos
          /\ l'.history = l.history
          /\ l'.history_index = l.history_index
          /\ l'.in_completion = l.in_completion
          /\ l'.completion_idx = l.completion_idx]_vars

\* C23: when the input ends or fails during the reads that follow ESC, feed
\* returns READING and the line, the cursor and the history are as before.
C23_ShortEscapeIsNoOp ==
    [][(pc = "editing" /\ last'.op = "feed" /\ last'.arg \in ShortSequences)
       => /\ last'.st = COMLIN_READING
          /\ l'.buf = l.buf
          /\ l'.pos = l.pos
          /\ l'.history = l.history
          /\ l'.history_index = l.history_index]_vars

\* The reads of ESC [ 3 ended before the last byte with the cursor on a
\* letter and a history line to recall.
C23_DeleteCutShort ==
    /\ pc = "editing"
    /\ last.op = "feed" /\ last.arg = <<ESC, CH_LBRACKET, CH_3, READ_EOF>>
    /\ l.buf.length = 2 /\ l.pos = 1
    /\ Len(l.history) = 2

(***************************************************************************)
(* Properties of the line buffer when memory runs out.                     *)
(***************************************************************************)
\* The step is the insert of a byte for which the line buffer had to grow
\* and did not.
GrowFailed ==
    /\ pc = "editing" /\ ~l.dumb
    /\ last'.op = "feed" /\ Len(last'.arg) = 1 /\ Printable(last'.arg[1])
    /\ l.buf.length + 2 > l.buf.size
    /\ l'.buf.size = l.buf.size

\* C24: an insert whose realloc fails changes nothing: the line, its length
\* and the cursor are as before, feed returns READING and the edit goes on.
C24_FailedGrowIsNoOp ==
    [][GrowFailed
       => /\ last'.st = COMLIN_READING
          /\ pc' = "editing"
          /\ l'.buf = l.buf
          /\ l'.pos = l.pos]_vars

(***************************************************************************)
(* Properties of the read of a key.                                        *)
(***************************************************************************)
\* C25: feed returns END when its read returns 0 and BAD_READ when its read
\* fails, and it returns BAD_READ in no other case: never for a byte it
\* has read.
C25_BadReadOnlyOnFailedRead ==
    [][(pc = "editing" /\ last'.op = "feed")
       => /\ last'.arg[1] = READ_EOF => last'.st = COMLIN_END
          /\ last'.arg[1] = READ_ERR => last'.st = COMLIN_BAD_READ
          /\ last'.st = COMLIN_BAD_READ => last'.arg[1] = READ_ERR]_vars

(***************************************************************************)
(* Properties of the history file.                                         *)
(***************************************************************************)
\* C26: comlin_history_save returns success (0) only when the file holds
\* every entry, oldest first, each followed by a newline; when it fails
\* because the file does not open, the file is as before.
C26_SaveReportsFailure ==
    [][last'.op = "history_save"
       => /\ last'.st = 0 => file' = SaveBytes(l.history)
          /\ last'.st # 0 => file' = file]_vars

(***************************************************************************)
(* Properties of comlin_hide and comlin_show.                              *)
(***************************************************************************)
\* What an edit consists of, apart from what is drawn.
Edited(s) ==
    <<s.buf, s.pos, s.history, s.history_index, s.in_completion, s.completion_idx>>

\* C27: comlin_hide and comlin_show leave the line, its length, the cursor,
\* the history, the recall index and the completion state as they are, and
\* the next feed gives the same result after them as before them.
C27_HideAndShowOnlyDraw ==
    [][(pc = "editing" /\ last'.op \in {"hide", "show"})
       => /\ pc' = "editing"
          /\ Edited(l') = Edited(l)
          /\ \A inp \in HideInputs :
               LET before == comlin_edit_feed(l, inp, TRUE, TRUE)
                   after == comlin_edit_feed(l', inp, TRUE, TRUE)
               IN  /\ after.st = before.st
                   /\ Edited(after.l) = Edited(before.l)]_vars

\* The line was hidden and shown again, in multi-line mode, while the
\* candidate of a completion was on the screen.
C27_ShownWithCandidate ==
    /\ pc = "editing" /\ last.op = "show"
    /\ l.mlmode /\ l.in_completion /\ l.completion_idx = 1
    /\ comlin_text(l) = <<CH_a>>
    /\ l.out # <<>>

(***************************************************************************)
(* Properties of Ctrl-D.                                                   *)
(***************************************************************************)
\* The bytes of the line.
Line(s) == SubSeq(s.buf.data, 1, s.buf.length)

\* The sequence without its element at C index i.
Without(seq, i) == SubSeq(seq, 1, i) \o SubSeq(seq, i + 2, Len(seq))

\* C28: Ctrl-D on a line that is not empty removes the character under the
\* cursor, or nothing when the cursor is at the end, leaves the cursor and
\* the history as they are, and feed returns READING; Ctrl-D on an empty
\* line removes the newest history entry, the slot of the line being edited,
\* and feed returns END.
C28_CtrlDDeletesOrEnds ==
    [][(pc = "editing" /\ KeyPressed(last', CTRL_D))
       => IF l.buf.length > 0
          THEN /\ last'.st = COMLIN_READING
               /\ pc' = "editing"
               /\ Line(l') = IF l.pos < l.buf.length
                             THEN Without(Line(l), l.pos)
                             ELSE Line(l)
               /\ l'.buf.data[l'.buf.length + 1] = 0
               /\ l'.pos = l.pos
               /\ l'.history = l.history
          ELSE /\ last'.st = COMLIN_END
               /\ pc' = "ended"
               /\ l'.history = Stored(l)
               /\ l'.buf = l.buf
               /\ l'.pos = l.pos]_vars

\* Ctrl-D removed the first of two different characters.
C28_FirstCharacterDeleted ==
    /\ pc = "editing" /\ KeyPressed(last, CTRL_D)
    /\ Line(l) = <<CH_b>> /\ l.pos = 0
    /\ Len(l.history) > 1

(***************************************************************************)
(* Properties of Ctrl-W.                                                   *)
(***************************************************************************)
\* The bytes of line at the C indices from..to - 1 are the spaces right
\* before to, preceded by the whole run of other bytes before them.
IsWordSpan(line, from, to) ==
    \E mid \in from..to :
        /\ \A i \in (from + 1)..mid : line[i] # SPACE
        /\ \A i \in (mid + 1)..to : line[i] = SPACE
        /\ mid = 0 \/ line[mid] # SPACE
        /\ from = 0 \/ line[from] = SPACE

\* C29: Ctrl-W removes the spaces right before the cursor and the run of
\* other bytes before them: the line becomes the bytes before that span
\* followed by the bytes from the old cursor on, the cursor is at the start
\* of the span and the length is smaller by the length of the span.
C29_DeletePrevWordRemovesSpan ==
    [][(pc = "editing" /\ KeyPressed(last', CTRL_W))
       => /\ last'.st = COMLIN_READING
          /\ l'.pos <= l.pos
          /\ IsWordSpan(Line(l), l'.pos, l.pos)
          /\ Line(l') = SubSeq(Line(l), 1, l'.pos)
                            \o SubSeq(Line(l), l.pos + 1, l.buf.length)
          /\ l'.buf.length = l.buf.length - (l.pos - l'.pos)]_vars

\* Ctrl-W removed a span between the first word with its space and the
\* rest of the line.
C29_WordRemovedInsideLine ==
    /\ pc = "editing" /\ KeyPressed(last, CTRL_W)
    /\ Line(l) = <<CH_a, SPACE, CH_a>> /\ l.pos = 2

(***************************************************************************)
(* Properties of the multi-line refresh on the screen.  The terminal reads *)
(* the bytes refresh_multi_line writes: "\r", "\n", the sequences          *)
(* ESC [ n A (up), ESC [ n B (down), ESC [ n C (right), ESC [ 0 K (erase   *)
(* to the right), and characters, which wrap at the right edge when the    *)
(* next character arrives.                                                 *)
(***************************************************************************)
\* The number that starts at out[i] and the index after it.
RECURSIVE Number(_, _, _)
Number(out, i, n) ==
    IF i <= Len(out) /\ out[i] >= CH_0 /\ out[i] <= CH_9
    THEN Number(out, i + 1, 10 * n + (out[i] - CH_0))
    ELSE [n |-> n, next |-> i]

\* The largest element of a set of numbers that is not empty.
MaxOf(S) == CHOOSE x \in S : \A y \in S : y <= x

\* A terminal with the cursor in the first column of row r.  top is the row
\* the rendering starts on: the row of the last erase before a character is
\* written.  inked holds the rows the rendering occupies, cleared the rows
\* an erase was done on.
Blank(r) ==
    [row |-> r, col |-> 0, wrap |-> FALSE, top |-> r, inked |-> {}, cleared |-> {}]

\* Whether out[i] is a byte inside a sequence: the byte after an ESC, the
\* one after that, or the byte after a digit inside a sequence.
RECURSIVE InSequence(_, _)
InSequence(out, i) ==
    /\ i > 1
    /\ \/ out[i - 1] = ESC
       \/ i > 2 /\ out[i - 2] = ESC
       \/ out[i - 1] >= CH_0 /\ out[i - 1] <= CH_9 /\ InSequence(out, i - 1)

\* The terminal t of cols columns after it read the character or the
\* sequence that starts at out[i].
Read(out, i, cols, t) ==
    CASE out[i] = CARRIAGE_RETURN -> [t EXCEPT !.col = 0, !.wrap = FALSE]
      [] out[i] = NEWLINE ->
           [t EXCEPT !.row = t.row + 1, !.wrap = FALSE,
                     !.inked = @ \cup {t.row + 1}]
      [] out[i] = ESC ->
           LET read(arg) ==
                   CASE out[arg.next] = CH_A ->
                          [t EXCEPT !.row = t.row - arg.n, !.wrap = FALSE]
                     [] out[arg.next] = CH_B ->
                          [t EXCEPT !.row = t.row + arg.n, !.wrap = FALSE]
                     [] out[arg.next] = CH_C ->
                          [t EXCEPT !.col = Min(t.col + arg.n, cols - 1),
                                    !.wrap = FALSE]
                     [] out[arg.next] = CH_K ->
                          [t EXCEPT !.cleared = @ \cup {t.row},
                                    !.top = IF t.inked = {} THEN t.row ELSE @]
                     [] OTHER -> t
           IN  read(Number(out, i + 2, 0))
      [] OTHER ->
           LET shown(at) ==
                   IF at.col = cols - 1
                   THEN [at EXCEPT !.inked = @ \cup {at.row}, !.wrap = TRUE]
                   ELSE [at EXCEPT !.inked = @ \cup {at.row}, !.col = at.col + 1]
           IN  shown(IF t.wrap
                     THEN [t EXCEPT !.row = t.row + 1, !.col = 0, !.wrap = FALSE]
                     ELSE t)

\* The terminal t of cols columns after it read what starts at the indices
\* from..to of out, one half after the other.
RECURSIVE Drawn(_, _, _, _, _)
Drawn(out, from, to, cols, t) ==
    IF from > to
    THEN t
    ELSE IF from = to
    THEN IF InSequence(out, from) THEN t ELSE Read(out, from, cols, t)
    ELSE CHOOSE r \in {Drawn(out, (from + to) \div 2 + 1, to, cols, half) :
                          half \in {Drawn(out, from, (from + to) \div 2, cols, t)}} :
             TRUE

\* The number of rows the rendering on t occupies, and the row of the
\* cursor counted from the first row of the rendering, which is row 1.
RowsPainted(t) == IF t.inked = {} THEN 0 ELSE MaxOf(t.inked) - t.top + 1
CursorRow(t) == t.row - t.top + 1

\* The terminal after the call that led to the session s, and whether that
\* call was a refresh that wrote the line, so that its bytes tell what the
\* screen shows.
Screen(s) == Drawn(s.out, 1, Len(s.out), s.cols, Blank(1))
ScreenKnown(call, s) ==
    \/ call.op = "show"
    \/ call.op = "feed" /\ s.out # <<>>

\* The terminal after the next call, which leads to the session s, in the
\* rows of the rendering on the terminal before.
NextScreen(before, s) == Drawn(s.out, 1, Len(s.out), s.cols, Blank(CursorRow(before)))

\* C30: a multi-line refresh that writes records the cursor position it
\* showed and the number of rows it occupied; the next refresh that erases
\* goes down to the last of these rows, clears each of them on its way up
\* and ends on the first one, and clears no other row.
C30_EraseClearsWhatWasPainted ==
    [][/\ (pc = "editing" /\ ScreenKnown(last, l) /\ l'.out # <<>>
           /\ last'.op \in {"feed", "hide"})
          => \A before \in {Screen(l)} :
               \A after \in {NextScreen(before, l')} :
                 /\ after.cleared
                      = 1..(IF RowsPainted(before) = 0 THEN 1 ELSE RowsPainted(before))
                 /\ after.top = 1
                 /\ last'.op = "hide" => CursorRow(after) = 1
       /\ (pc \in {"editing", "hidden"} /\ l'.out # <<>>
           /\ last'.op \in {"feed", "show"})
          => /\ l'.oldrows = RowsPainted(Screen(l'))
             /\ l'.oldpos = l'.pos]_vars

\* A refresh went one row down and cleared three rows.
C30_ThreeRowsErased ==
    /\ pc = "editing" /\ last.op = "feed" /\ l.cols > 1
    /\ Len(l.out) >= 4 /\ SubSeq(l.out, 1, 4) = Csi(1, CH_B)
    /\ Cardinality(Screen(l).cleared) = 3

(***************************************************************************)
(* Properties of the window of the single-line refresh.                    *)
(***************************************************************************)
\* The first loop of refresh_single_line: while (plen + pos >= cols) drop a
\* byte at the left.  below is set when len or pos is decremented at 0.
RECURSIVE ScrollRight(_, _, _, _)
ScrollRight(plen, cols, len, pos) ==
    IF plen + pos >= cols
    THEN IF len = 0 \/ pos = 0
         THEN [len |-> len, pos |-> pos, below |-> TRUE]
         ELSE ScrollRight(plen, cols, len - 1, pos - 1)
    ELSE [len |-> len, pos |-> pos, below |-> FALSE]

\* The second loop: while (plen + len > cols) drop a byte at the right.
RECURSIVE Truncate(_, _, _)
Truncate(plen, cols, w) ==
    IF ~w.below /\ plen + w.len > cols
    THEN IF w.len = 0
         THEN [w EXCEPT !.below = TRUE]
         ELSE Truncate(plen, cols, [w EXCEPT !.len = w.len - 1])
    ELSE w

\* The visible length and the visible cursor that refresh_single_line
\* computes for the session s.
Window(s) == Truncate(s.plen, s.cols, ScrollRight(s.plen, s.cols, s.buf.length, s.pos))

\* C31: in single-line mode, for the line, cursor, prompt and width of every
\* session being edited, the two loops of the refresh end with
\* plen + visible cursor < cols and plen + visible length <= cols without
\* decrementing either below zero, and the refresh of a key is carried out.
C31_WindowFitsTheTerminal ==
    [][(pc = "editing" /\ last'.op \in {"feed", "show", "hide"})
       => /\ ~l'.ub
          /\ ~Window(l').below
          /\ l'.plen + Window(l').pos < l'.cols
          /\ l'.plen + Window(l').len <= l'.cols]_vars

(***************************************************************************)
(* Properties of the display of a completion candidate.                    *)
(***************************************************************************)
\* The bytes written by the call that led to s hold the bytes of text.
Wrote(s, text) ==
    \E i \in 1..Len(s.out) :
        i + Len(text) - 1 <= Len(s.out) /\ SubSeq(s.out, i, i + Len(text) - 1) = text

\* C32: a Tab and a comlin_show that put a completion candidate on the
\* screen refresh the screen and leave the line, its length and the cursor
\* as they were before.
C32_CandidateDisplayKeepsLine ==
    [][(/\ pc = "editing"
        /\ KeyPressed(last', TAB) \/ last'.op = "show"
        /\ l'.in_completion
        /\ l'.completion_idx < Len(completion(strdup(l'.buf.data))))
       => /\ l'.out # <<>>
          /\ l'.buf = l.buf
          /\ l'.pos = l.pos]_vars

\* Tab put the second candidate on the screen while the line holds the
\* letter typed.
C32_SecondCandidateOnScreen ==
    /\ pc = "editing" /\ KeyPressed(last, TAB)
    /\ l.in_completion /\ l.completion_idx = 1
    /\ Line(l) = <<CH_a>> /\ l.pos = 1
    /\ Wrote(l, <<CH_a, CH_b, CH_b>>)

(***************************************************************************)
(* Properties of the escape sequences of the cursor keys.                  *)
(***************************************************************************)
\* The control key for the command of a sequence.
ControlKey(seq) ==
    CASE seq = <<ESC, CH_LBRACKET, CH_A>> -> CTRL_P
      [] seq = <<ESC, CH_LBRACKET, CH_B>> -> CTRL_N
      [] seq = <<ESC, CH_LBRACKET, CH_C>> -> CTRL_F
      [] seq = <<ESC, CH_LBRACKET, CH_D>> -> CTRL_B
      [] seq \in {<<ESC, CH_LBRACKET, CH_H>>, <<ESC, CH_O, CH_H>>} -> CTRL_A
      [] seq \in {<<ESC, CH_LBRACKET, CH_F>>, <<ESC, CH_O, CH_F>>} -> CTRL_E
      [] seq = <<ESC, CH_LBRACKET, CH_3, CH_TILDE>> -> CTRL_D

\* The line with its cursor, the history and the recall index.
Recalled(s) == <<s.buf, s.pos, s.history, s.history_index>>

\* C33: a feed that reads a sequence of a cursor key, Home, End or Delete
\* consumes all its bytes, returns READING and leaves line, cursor, history
\* and recall index as the control key for the same command does (Delete on
\* an empty line, where Ctrl-D ends the edit, leaves them unchanged); a
\* feed that reads another sequence leaves them unchanged; of each of
\* these sequences feed consumes three bytes, or four after ESC [ digit.
C33_SequencesActAsControlKeys ==
    /\ [](pc = "editing"
           => \A seq \in KnownSequences \cup OtherSequences :
                comlin_edit_feed(l, seq, TRUE, TRUE).n = Len(seq))
    /\ [][/\ (pc = "editing" /\ last'.op = "feed" /\ last'.arg \in KnownSequences)
             => \A key \in {comlin_edit_feed(l, <<ControlKey(last'.arg)>>, TRUE, TRUE)} :
                  /\ last'.st = COMLIN_READING
                  /\ Recalled(l') = IF key.st = COMLIN_READING
                                    THEN Recalled(key.l) ELSE Recalled(l)
          /\ (pc = "editing" /\ last'.op = "feed" /\ last'.arg \in OtherSequences)
             => /\ last'.st = COMLIN_READING
                /\ Recalled(l') = Recalled(l)]_vars

\* The Up key recalled the history line.
C33_UpRecalled ==
    /\ pc = "editing" /\ last.op = "feed" /\ last.arg = <<ESC, CH_LBRACKET, CH_A>>
    /\ l.history_index = 1
    /\ Line(l) = <<CH_b>>

(***************************************************************************)
(* Properties of Tab without a completion candidate.                       *)
(***************************************************************************)
\* C34: a feed that reads Tab with a completion callback set and no
\* candidate to show, because the line is empty or the callback adds none
\* for it, writes a bell, is not in a completion round afterwards and
\* leaves line and cursor unchanged.
C34_TabWithoutCandidateIsInert ==
    [][(/\ pc = "editing" /\ last'.op = "feed" /\ last'.arg = <<TAB>>
        /\ l.completion_callback /\ ~l.dumb /\ ~l.in_completion
        /\ (l.buf.length = 0 \/ completion(strdup(l.buf.data)) = <<>>))
       => /\ last'.st = COMLIN_READING
          /\ Wrote(l', <<BEL>>)
          /\ ~l'.in_completion
          /\ l'.buf = l.buf
          /\ l'.pos = l.pos]_vars

(***************************************************************************)
(* Properties of the recall index across edits.                            *)
(***************************************************************************)
\* C35: an edit begins on the live line: after a comlin_edit_start that
\* succeeded the recall index is 0, wherever the edit before it ended.
C35_StartResetsRecallIndex ==
    [][(last'.op = "start" /\ last'.st = COMLIN_SUCCESS) => l'.history_index = 0]_vars

\* C36: recall and the edits of recalled lines do not alter the stored
\* entries: a feed that reads history-prev, history-next, a letter or
\* Backspace leaves every history entry but the reserved newest one with the
\* text it had.
C36_RecallKeepsStoredEntries ==
    [][(/\ pc = "editing" /\ last'.op = "feed"
        /\ last'.arg \in {<<CTRL_P>>, <<CTRL_N>>, <<CH_a>>, <<BACKSPACE>>})
       => Stored(l') = Stored(l)]_vars

(***************************************************************************)
(* Properties of the placeholder entry of an edit.                         *)
(***************************************************************************)
\* C37: an edit without recall leaves the history as it found it: Enter, or
\* Ctrl-D on the empty line, read by the first comlin_edit_feed after a
\* comlin_edit_start that succeeded leaves the history with the entries it
\* had before that start, in their order, and a feed that reads a letter, a
\* cursor key or a delete key does not change the history.
C37_EditWithoutRecallKeepsHistory ==
    [][/\ (last'.op = "start" /\ last'.st = COMLIN_SUCCESS)
          => \A key \in {ENTER, CTRL_D} :
               comlin_edit_feed(l', <<key>>, TRUE, TRUE).l.history = l.history
       /\ (pc = "editing" /\ last'.op = "feed" /\ last'.st = COMLIN_READING)
          => l'.history = l.history]_vars

\* C38: when a feed pops the placeholder, on Enter or on Ctrl-D read with
\* an empty line, the history holds at least one entry: the pop takes an
\* entry of the history and releases no slot outside of it.
C38_PopFindsAnEntry ==
    [][(/\ pc = "editing" /\ last'.op = "feed"
        /\ \/ last'.arg = <<ENTER>>
           \/ last'.arg = <<CTRL_D>> /\ l.buf.length = 0)
       => /\ Len(l.history) >= 1
          /\ Len(l'.history) = Len(l.history) - 1
          /\ ~l'.ub]_vars

\* C39: in every state of an edit in which history-prev or history-next
\* acts, that is with more than one history entry, the recall index is at
\* most the number of entries less one, so that the slot the key stores to
\* and loads from is an entry of the history.
C39_RecallIndexInRange ==
    (pc = "editing" /\ ~l.dumb /\ Len(l.history) > 1)
        => l.history_index <= Len(l.history) - 1

(***************************************************************************)
(* Properties of comlin_read_line.                                         *)
(***************************************************************************)
\* C40: comlin_read_line returns on every finite input: once it is in its
\* feed loop, a comlin_edit_feed returns a status other than COMLIN_READING
\* after finitely many keys, comlin_edit_stop is called and the call
\* returns to the program; no key handler and no refresh runs forever.
C40_ReadLineReturns ==
    (pc = "rl_feed") ~> (pc = "idle" /\ last.op = "read_line")

====
